---- MODULE Spec2Model ----
(***************************************************************************)
(* A model of the CODEREFINE backend (CODEREVGENAI/backend): the model     *)
(* gateway get_ai_response, its serialisation of the shared Gemini client, *)
(* the request handlers that dispatch to it, and the similarity corpus.    *)
(*                                                                         *)
(* Python strings are sequences of one-character strings, so that prefix,  *)
(* substring, case folding and positional comparison are computed as the   *)
(* code computes them.  Python's None is the value None below.             *)
(***************************************************************************)
EXTENDS Integers, Sequences, FiniteSets, TLC

VARIABLES
    impl,               \* which module's get_ai_response runs: "main" or "ai_service"
    GEMINI_AVAILABLE,   \* google.generativeai could be imported
    SYSTEM_GEMINI_KEY,  \* os.getenv("GEMINI_API_KEY")
    groq_client,        \* ai_service.client is not None
    ENCRYPTION_AVAILABLE,     \* cryptography.fernet could be imported
    SECURITY_DEPS_AVAILABLE,  \* nh3 (and pyotp) could be imported
    BCRYPT_AVAILABLE,   \* bcrypt could be imported
    genai_api_key,      \* the key the shared genai client is configured with
    gw,                 \* the last call of get_ai_response: its arguments and what it did
    gemini_lock,        \* threading.Lock(): the thread holding it, 0 when free
    thr,                \* the requests in flight on the Gemini route, one per thread
    heap,               \* the list objects: for each list id, the list's elements
    CODE_DATABASE,      \* the global name CODE_DATABASE: the id of the list it is bound to
    sim,                \* the last similarity operation and what it returned
    cthr,               \* the review requests in flight on the corpus, one per thread
    USER_SETTINGS,      \* for each user, the gemini_key stored in the user's settings
    STUDENT_STATS,      \* for each requester id, the reviews counted; 0 when absent
    MAINTENANCE_MODE,   \* the global maintenance flag
    GUEST_USAGE,        \* for each client IP, the guest usage record
    now,                \* time.time(), in seconds
    req,                \* the last request a handler served and what it did
    COMPANY_POLICIES,   \* the global policy text, "" until a policy is uploaded
    res,                \* the last operation's inputs, locals and returned value
    USER_DB,            \* the in-memory users, in the order of the dict: one record each
    ACTIVE_SESSIONS,    \* the sessions by token
    CODE_SNIPPETS,      \* for each user, the list of saved snippets
    CODE_HISTORY,       \* for each user, the list of saved versions
    USER_ANALYTICS,     \* for each user, the activity record
    API_RATE_LIMITS,    \* for each user, the usage record
    WEBHOOKS,           \* for each user, the list of webhooks
    script,             \* verify_auth.py: the step the script is at and its test user
    active_connections, \* manager.active_connections: the websockets, in list order
    sockets             \* for each websocket, its peer and its websocket_endpoint task

envVars ==
    <<impl, GEMINI_AVAILABLE, SYSTEM_GEMINI_KEY, groq_client,
      ENCRYPTION_AVAILABLE, SECURITY_DEPS_AVAILABLE, BCRYPT_AVAILABLE>>

gatewayVars == <<genai_api_key, gw>>

threadVars == <<gemini_lock, thr>>

corpusVars == <<heap, CODE_DATABASE, sim, cthr>>

handlerVars ==
    <<USER_SETTINGS, STUDENT_STATS, MAINTENANCE_MODE, GUEST_USAGE, now, req,
      COMPANY_POLICIES, res>>

accountVars == <<USER_DB, ACTIVE_SESSIONS, script>>

libraryVars == <<CODE_SNIPPETS, CODE_HISTORY, USER_ANALYTICS, API_RATE_LIMITS, WEBHOOKS>>

relayVars == <<active_connections, sockets>>

storeVars == <<accountVars, libraryVars, relayVars>>

vars == <<envVars, gatewayVars, threadVars, corpusVars, handlerVars, storeVars>>

-----------------------------------------------------------------------------
(* Strings *)

None == <<"None">>

\* Python truthiness of an optional string: None and "" are falsy.
Truthy(s) == s # None /\ s # <<>>

\* a or b
PyOr(a, b) == IF Truthy(a) THEN a ELSE b

UpperCase == <<"A","B","C","D","E","F","G","H","I","J","K","L","M",
               "N","O","P","Q","R","S","T","U","V","W","X","Y","Z">>

LowerCase == <<"a","b","c","d","e","f","g","h","i","j","k","l","m",
               "n","o","p","q","r","s","t","u","v","w","x","y","z">>

\* Stands for the backtick character, which a string of this notation
\* cannot hold.
Backtick == "^"

\* Every character a string of the model is made of.
Chars ==
    {UpperCase[i] : i \in DOMAIN UpperCase} \cup {LowerCase[i] : i \in DOMAIN LowerCase}
      \cup {"0","1","2","3","4","5","6","7","8","9"}
      \cup {" ", "-", ".", ":", "%", "(", ")", "/", "#", "\n", "_", "<", ">", "&", ";",
            "'", ",", "\"", "\t", "@", "+", "$", "!", Backtick}

\* The lower-case form of each character.
LowerChar ==
    [c \in Chars |->
        IF \E i \in DOMAIN UpperCase : UpperCase[i] = c
        THEN LowerCase[CHOOSE i \in DOMAIN UpperCase : UpperCase[i] = c]
        ELSE c]

\* str.lower()
Lower(s) == [i \in DOMAIN s |-> LowerChar[s[i]]]

\* sub in s
Contains(s, sub) ==
    \E i \in 0..(Len(s) - Len(sub)) : \A k \in DOMAIN sub : s[i + k] = sub[k]

\* s.startswith(p)
StartsWith(s, p) == Len(s) >= Len(p) /\ SubSeq(s, 1, Len(p)) = p

S_gemini == <<"g","e","m","i","n","i">>

S_gemini_pro == <<"g","e","m","i","n","i","-","p","r","o">>

S_llama_versatile ==
    <<"l","l","a","m","a","-","3",".","3","-","7","0","b","-","v","e","r","s",
      "a","t","i","l","e">>

S_llama_reasoning ==
    <<"l","l","a","m","a","-","3",".","1","-","4","0","5","b","-","r","e","a",
      "s","o","n","i","n","g">>

S_mixtral == <<"m","i","x","t","r","a","l","-","8","x","7","b","-","3","2","7","6","8">>

S_Error_colon == <<"E","r","r","o","r",":">>

\* main.py: "Error: google-generativeai library not installed. Please install it to use Gemini."
E_LIB_main ==
    <<"E","r","r","o","r",":"," ","g","o","o","g","l","e","-","g","e","n","e",
      "r","a","t","i","v","e","a","i"," ","l","i","b","r","a","r","y"," ",
      "n","o","t"," ","i","n","s","t","a","l","l","e","d","."," ","P","l",
      "e","a","s","e"," ","i","n","s","t","a","l","l"," ","i","t"," ","t",
      "o"," ","u","s","e"," ","G","e","m","i","n","i",".">>

\* ai_service.py: "Error: google-generativeai library not installed."
E_LIB_service ==
    <<"E","r","r","o","r",":"," ","g","o","o","g","l","e","-","g","e","n","e",
      "r","a","t","i","v","e","a","i"," ","l","i","b","r","a","r","y"," ",
      "n","o","t"," ","i","n","s","t","a","l","l","e","d",".">>

\* main.py: "Error: Gemini API Key not found. Please add it in Settings."
E_KEY_main ==
    <<"E","r","r","o","r",":"," ","G","e","m","i","n","i"," ","A","P","I"," ",
      "K","e","y"," ","n","o","t"," ","f","o","u","n","d","."," ","P","l",
      "e","a","s","e"," ","a","d","d"," ","i","t"," ","i","n"," ","S","e",
      "t","t","i","n","g","s",".">>

\* ai_service.py: "Error: Gemini API Key not found."
E_KEY_service ==
    <<"E","r","r","o","r",":"," ","G","e","m","i","n","i"," ","A","P","I"," ",
      "K","e","y"," ","n","o","t"," ","f","o","u","n","d",".">>

\* "Error calling Gemini: "
E_GEMINI_prefix ==
    <<"E","r","r","o","r"," ","c","a","l","l","i","n","g"," ","G","e","m","i",
      "n","i",":"," ">>

\* "Error: Could not get a response from AI."
E_AI ==
    <<"E","r","r","o","r",":"," ","C","o","u","l","d"," ","n","o","t"," ","g",
      "e","t"," ","a"," ","r","e","s","p","o","n","s","e"," ","f","r","o",
      "m"," ","A","I",".">>

\* ai_service.py: "Error: Groq API Key not configured."
E_GROQ_KEY ==
    <<"E","r","r","o","r",":"," ","G","r","o","q"," ","A","P","I"," ","K","e",
      "y"," ","n","o","t"," ","c","o","n","f","i","g","u","r","e","d",".">>

-----------------------------------------------------------------------------
(* Inputs of the gateway *)

\* API keys that requests and the environment carry.
Key1 == <<"k","1">>

Key2 == <<"k","2">>

KeySys == <<"s","y","s">>

UserKeys == {Key1, Key2}

\* gemini_key as a caller passes it: absent, empty, or a key.
OptUserKeys == UserKeys \cup {None, <<>>}

\* model ids handed to get_ai_response
GatewayModels ==
    { S_gemini_pro,
      <<"G","e","m","i","n","i","-","P","r","o">>,
      <<"m","y","-","G","E","M","I","N","I">>,
      S_llama_versatile,
      S_mixtral,
      <<"g","e","m","m","a">>,
      <<>> }

Prompts == { <<>>, <<"p">> }

\* What the provider does with one call.
\*   text:   it answers with .text
\*   notext: Gemini answers without a text part (response.text raises);
\*           the chat provider answers with no choice (choices[0] raises)
\*   fail:   the call raises (network, auth, quota)
ProviderTexts == { <<>>, <<"o","k">> }

ProviderErrors == { <<"q","u","o","t","a">> }

NoTextError == <<"n","o"," ","t","e","x","t">>

Outcomes ==
    [kind : {"text"}, text : ProviderTexts, msg : {<<>>}]
      \cup [kind : {"notext"}, text : {<<>>}, msg : {NoTextError}]
      \cup [kind : {"fail"}, text : {<<>>}, msg : ProviderErrors]

-----------------------------------------------------------------------------
(* get_ai_response *)

\* A Python expression either yields a value or raises.
Value(v) == [exc |-> FALSE, val |-> v]

Raise(m) == [exc |-> TRUE, val |-> m]

\* "gemini" in model.lower()
IsGeminiModel(model) == Contains(Lower(model), S_gemini)

\* The precedence reversed: the system-wide key shadows the caller's key.
final_key_system_first(gemini_key) == PyOr(SYSTEM_GEMINI_KEY, gemini_key)

\* final_key = gemini_key or SYSTEM_GEMINI_KEY
final_key_of(gemini_key) == PyOr(gemini_key, SYSTEM_GEMINI_KEY)

E_LIB == IF impl = "main" THEN E_LIB_main ELSE E_LIB_service

E_KEY == IF impl = "main" THEN E_KEY_main ELSE E_KEY_service

\* The body of `with gemini_lock:` followed by response.text.
gemini_generate(outcome) ==
    CASE outcome.kind = "fail"   -> Raise(outcome.msg)
      [] outcome.kind = "notext" -> Raise(outcome.msg)
      [] outcome.kind = "text"   -> Value(outcome.text)

\* client.chat.completions.create(...); completion.choices[0].message.content
groq_generate(outcome) ==
    CASE outcome.kind = "fail"   -> Raise(outcome.msg)
      [] outcome.kind = "notext" -> Raise(outcome.msg)
      [] outcome.kind = "text"   -> Value(outcome.text)

\* What a call leaves behind when it returns before reaching a provider.
\* route names the branch of get_ai_response the call took.
NoEffect(route, result) ==
    [route |-> route, result |-> result, raised |-> FALSE, locked |-> FALSE,
     configured |-> None, contacted |-> "none", failed |-> TRUE]

\* try: with gemini_lock: configure; generate  / return response.text
\* except Exception as e: return f"Error calling Gemini: {str(e)}"
gemini_branch(final_key, outcome) ==
    LET r == gemini_generate(outcome) IN
    [route |-> "gemini",
     result |-> IF r.exc THEN E_GEMINI_prefix \o r.val ELSE r.val,
     raised |-> FALSE, locked |-> TRUE,
     configured |-> final_key, contacted |-> "gemini", failed |-> r.exc]

\* try: completion = ...; return content / except Exception: return "Error: ..."
groq_branch(outcome) ==
    LET r == groq_generate(outcome) IN
    [route |-> "groq",
     result |-> IF r.exc THEN E_AI ELSE r.val,
     raised |-> FALSE, locked |-> FALSE,
     configured |-> None, contacted |-> "groq", failed |-> r.exc]

get_ai_response(model, gemini_key, outcome) ==
    IF IsGeminiModel(model)
    THEN IF ~GEMINI_AVAILABLE
         THEN NoEffect("gemini", E_LIB)
         ELSE IF ~Truthy(final_key_of(gemini_key))
              THEN NoEffect("gemini", E_KEY)
              ELSE gemini_branch(final_key_of(gemini_key), outcome)
    ELSE IF impl = "ai_service" /\ ~groq_client
         THEN NoEffect("groq", E_GROQ_KEY)
         ELSE groq_branch(outcome)

\* Bound: the number of request threads in flight at once.
NThreads == 2

Threads == 1..NThreads

IdleThread == [op |-> "none", pc |-> "idle", key |-> None, used |-> None]

\* No request is in flight and the lock is free.
NoThreads ==
    /\ gemini_lock = 0
    /\ thr = [t \in Threads |-> IdleThread]

\* Bound: the length of a submitted code.
MaxCodeLen == 3

\* Bound: the number of entries a corpus list holds in the model.
MaxCorpus == 3

CodeAlphabet == {"a", "b"}

\* The codes requests submit, the empty one included: the strings of a's
\* and at most one b.
Codes ==
    {c \in UNION {[1..n -> CodeAlphabet] : n \in 0..MaxCodeLen} :
        \A i, j \in DOMAIN c : (c[i] = "b" /\ c[j] = "b") => i = j}

\* The codes the concurrent requests submit: the empty code, a code and one
\* that extends it.
ThreadCodes == {<<>>, <<"a">>, <<"a","b">>}

\* The list objects of the process.  Rebinding CODE_DATABASE to [] makes a
\* new list; the old one lives on while a running request still refers to it.
ListIds == 0..(NThreads + 1)

IdleCorpusThread ==
    [pc |-> "idle", code |-> <<>>, ref |-> -1, idx |-> 0,
     num |-> 0, den |-> 1, isfloat |-> FALSE, label |-> <<>>, reset_after |-> FALSE]

\* The list object made by CODE_DATABASE = [] at import.
ImportedList == 0

\* CODE_DATABASE = [] at import; nothing submitted yet.
EmptyCorpus ==
    /\ heap = [id \in ListIds |-> <<>>]
    /\ CODE_DATABASE = ImportedList
    /\ sim = [op |-> "none", code |-> <<>>, label |-> <<>>]
    /\ cthr = [t \in Threads |-> IdleCorpusThread]

\* payload.get("model", "llama-3.3-70b")
S_model_default == <<"l","l","a","m","a","-","3",".","3","-","7","0","b">>

S_3_3 == <<"3",".","3">>

S_405 == <<"4","0","5">>

S_student == <<"s","t","u","d","e","n","t">>

S_developer == <<"d","e","v","e","l","o","p","e","r">>

S_Anonymous == <<"A","n","o","n","y","m","o","u","s">>

S_guest == <<"g","u","e","s","t">>

S_admin == <<"a","d","m","i","n">>

S_default == <<"d","e","f","a","u","l","t">>

\* A signed-up user of the model.
S_amy == <<"a","m","y">>

\* A student's name.
S_sam == <<"s","a","m">>

\* An e-mail address.
S_mail == <<"a","@","b">>

S_Guest == <<"G","u","e","s","t">>

\* The names a request can run under or store settings for.
Users == {S_admin, S_guest, S_Guest, S_Anonymous, S_default, S_amy, S_sam, S_mail}

\* request.client.host
IPs == {<<"1","0",".","0",".","0",".","1">>}

\* Bound: the reviews counted for one requester id.
MaxReviews == 2

GUEST_DAILY_LIMIT == 5

\* The seconds of a guest usage window.
Day == 86400

\* An IP without a record in GUEST_USAGE; a stored record counts at least 1.
NoUsage == [count |-> 0, reset_time |-> 0]

NoRequest == [op |-> "none", status |-> 0, model_key |-> <<>>, calls |-> <<>>]

\* No operation has returned anything yet.
NoResponse == [op |-> "none"]

\* The stores as the module creates them, lines 196-210; no request served.
NoRequests ==
    /\ USER_SETTINGS = [u \in Users |-> None]
    /\ STUDENT_STATS = [u \in Users |-> 0]
    /\ MAINTENANCE_MODE = FALSE
    /\ GUEST_USAGE = [ip \in IPs |-> NoUsage]
    /\ now = 0
    /\ req = NoRequest
    /\ COMPANY_POLICIES = <<>>
    /\ res = NoResponse

\* admin_pwd = os.getenv("ADMIN_PASSWORD", "password")
admin_pwd == <<"p","a","s","s","w","o","r","d">>

S_admin_email ==
    <<"a","d","m","i","n","@","c","o","d","e","r","e","f","i","n","e",".","a","i">>

\* The characters of a password that bcrypt is given: password[:72]
PasswordLimit == 72

\* s[:n]
Take(s, n) == SubSeq(s, 1, IF Len(s) < n THEN Len(s) ELSE n)

\* The head of a bcrypt hash.
S_2b == <<"$","2","b","$">>

\* get_password_hash(password): the password itself without bcrypt, else a
\* bcrypt hash of its first 72 characters; the hash is written here as the
\* head "$2b$" and what was hashed, the salt left out
get_password_hash(password) ==
    IF ~BCRYPT_AVAILABLE THEN password ELSE S_2b \o Take(password, PasswordLimit)

\* verify_password(plain_password, hashed_password): equality without
\* bcrypt; else bcrypt.checkpw on the first 72 characters, which raises for
\* a text that is no hash, and the function returns False
verify_password(plain_password, hashed_password) ==
    IF ~BCRYPT_AVAILABLE THEN plain_password = hashed_password
    ELSE /\ StartsWith(hashed_password, S_2b)
         /\ Take(plain_password, PasswordLimit)
              = SubSeq(hashed_password, Len(S_2b) + 1, Len(hashed_password))

\* USER_DB as lines 222-224 create it and as lifespan (lines 88-93) leaves
\* it: the admin, with the password hashed.
AdminOnly(password) ==
    <<[username |-> S_admin, password |-> password, email |-> S_admin_email]>>

\* A response without a token.
NoToken == [sub |-> None, role |-> None, exp |-> 0]

\* verify_auth.py has not been started.
NoScript ==
    [pc |-> "off",
     test_user |-> [username |-> None, email |-> None, password |-> None],
     signup |-> 0, login |-> 0, token |-> NoToken]

\* A user without a list in a store of lists; has tells the key is there.
NoList == [has |-> FALSE, items |-> <<>>]

\* A user without a record in USER_ANALYTICS.
NoActivity == [has |-> FALSE, reviews |-> 0, generations |-> 0, languages |-> 0]

\* A user without a record in API_RATE_LIMITS.
NoQuota ==
    [has |-> FALSE, requests_today |-> 0, requests_month |-> 0, limit_daily |-> 0,
     limit_monthly |-> 0]

\* Bound: the websockets that connect to /ws/collab.
MaxSockets == 3

Sockets == 1..MaxSockets

\* A websocket nobody has opened: no peer, no task.
NoSocket == [pc |-> "none", open |-> FALSE, idx |-> 0]

\* manager = ConnectionManager(): no connection yet.
NoConnections ==
    /\ active_connections = <<>>
    /\ sockets = [w \in Sockets |-> NoSocket]

\* The stores of the users' data and the connection manager as the module
\* creates them.
NoLibrary ==
    /\ ACTIVE_SESSIONS = {}
    /\ CODE_SNIPPETS = [u \in Users |-> NoList]
    /\ CODE_HISTORY = [u \in Users |-> NoList]
    /\ USER_ANALYTICS = [u \in Users |-> NoActivity]
    /\ API_RATE_LIMITS = [u \in Users |-> NoQuota]
    /\ WEBHOOKS = [u \in Users |-> NoList]
    /\ NoConnections

\* The stores of accounts and of the users' data after startup.
NoStores ==
    /\ USER_DB = AdminOnly(get_password_hash(admin_pwd))
    /\ NoLibrary
    /\ script = NoScript

NoCall ==
    [op |-> "none", prompt |-> <<>>, model |-> <<>>, gemini_key |-> None,
     outcome |-> "none", route |-> "none", result |-> <<>>, raised |-> FALSE, locked |-> FALSE,
     configured |-> None, contacted |-> "none", failed |-> FALSE]

\* The process after import: the environment decides what is available.
InitGateway ==
    /\ impl \in {"main", "ai_service"}
    /\ GEMINI_AVAILABLE \in BOOLEAN
    /\ SYSTEM_GEMINI_KEY \in {None, <<>>, KeySys}
    /\ groq_client \in (IF impl = "main" THEN {TRUE} ELSE BOOLEAN)
    /\ ENCRYPTION_AVAILABLE = TRUE
    /\ SECURITY_DEPS_AVAILABLE = TRUE
    /\ BCRYPT_AVAILABLE = TRUE
    /\ NoRequests
    /\ NoStores
    /\ genai_api_key = None
    /\ gw = NoCall
    /\ NoThreads
    /\ EmptyCorpus

\* One call of get_ai_response(prompt, model=model, gemini_key=gemini_key).
CallGateway ==
    \E prompt \in Prompts, model \in GatewayModels,
       gemini_key \in OptUserKeys, outcome \in Outcomes :
        \E r \in {get_ai_response(model, gemini_key, outcome)} :
        /\ gw' = [op |-> "get_ai_response", prompt |-> prompt, model |-> model,
                  gemini_key |-> gemini_key, outcome |-> outcome.kind,
                  route |-> r.route, result |-> r.result, raised |-> r.raised, locked |-> r.locked,
                  configured |-> r.configured, contacted |-> r.contacted,
                  failed |-> r.failed]
        /\ genai_api_key' = IF r.configured # None THEN r.configured ELSE genai_api_key
        /\ UNCHANGED <<envVars, storeVars, handlerVars, threadVars, corpusVars>>

NextGateway == CallGateway

SpecGateway == InitGateway /\ [][NextGateway]_vars

-----------------------------------------------------------------------------
(* The similarity corpus *)

Min(a, b) == IF a <= b THEN a ELSE b

Max(a, b) == IF a >= b THEN a ELSE b

\* "0% (New)"
S_New == <<"0","%"," ","(","N","e","w",")">>

Digit == <<"0","1","2","3","4","5","6","7","8","9">>

\* str(n) for an int n >= 0
RECURSIVE IntStr(_)
IntStr(n) == IF n < 10 THEN <<Digit[n + 1]>> ELSE IntStr(n \div 10) \o <<Digit[(n % 10) + 1]>>

\* sum(1 for a, b in zip(code, old_code) if a == b)
matches(code, old_code) ==
    Cardinality({i \in 1..Min(Len(code), Len(old_code)) : code[i] = old_code[i]})

\* The similarity divided by the shorter length instead of the longer.
sim_of_shorter(code, old_code) ==
    IF Min(Len(code), Len(old_code)) > 0
    THEN [num |-> matches(code, old_code), den |-> Min(Len(code), Len(old_code)),
          isfloat |-> TRUE]
    ELSE [num |-> 0, den |-> 1, isfloat |-> FALSE]

\* sim = matches / max(len(code), len(old_code)) if max(...) > 0 else 0
\* A quotient is kept as numerator and denominator; isfloat tells the float
\* quotient from the int 0.
sim_of(code, old_code) ==
    IF Max(Len(code), Len(old_code)) > 0
    THEN [num |-> matches(code, old_code), den |-> Max(Len(code), Len(old_code)),
          isfloat |-> TRUE]
    ELSE [num |-> 0, den |-> 1, isfloat |-> FALSE]

\* max(max_sim, sim): the first argument unless the second is greater
py_max(a, b) == IF b.num * a.den > a.num * b.den THEN b ELSE a

\* round(x * 100, 2) in hundredths of a percent, ties to even
round_percent(x) ==
    LET n == 10000 * x.num
        q == n \div x.den
        r == n % x.den
    IN  IF 2 * r > x.den \/ (2 * r = x.den /\ q % 2 = 1) THEN q + 1 ELSE q

\* f"{round(max_sim * 100, 2)}%": an int prints as "0", a float with one or
\* two decimals
percent_label(x) ==
    LET h == round_percent(x)
        c == h % 100
    IN  IF ~x.isfloat
        THEN IntStr(h \div 100) \o <<"%">>
        ELSE IntStr(h \div 100) \o <<".">>
               \o (IF c % 10 = 0 THEN IntStr(c \div 10)
                   ELSE <<Digit[(c \div 10) + 1], Digit[(c % 10) + 1]>>)
               \o <<"%">>

\* The loop condition turned into a test of the code alone.
is_new_only_when_blank(code, list) == ~Truthy(code)

\* not code or not CODE_DATABASE
is_new(code, list) == ~Truthy(code) \/ list = <<>>

\* The loop that stops before the last entry.
RECURSIVE max_sim_skip_last(_, _, _, _)
max_sim_skip_last(code, list, i, cur) ==
    IF i >= Len(list) THEN cur
    ELSE max_sim_skip_last(code, list, i + 1, py_max(cur, sim_of(code, list[i])))

\* max_sim = 0; for old_code in CODE_DATABASE: max_sim = max(max_sim, sim)
RECURSIVE max_sim_loop(_, _, _, _)
max_sim_loop(code, list, i, cur) ==
    IF i > Len(list) THEN cur
    ELSE max_sim_loop(code, list, i + 1, py_max(cur, sim_of(code, list[i])))

\* An append that leaves out a code the list already holds.
list_append_dedup(h, ref, code) ==
    IF \E i \in DOMAIN h[ref] : h[ref][i] = code THEN h
    ELSE [h EXCEPT ![ref] = Append(h[ref], code)]

\* list.append(code) on the list object ref
list_append(h, ref, code) == [h EXCEPT ![ref] = Append(h[ref], code)]

\* The list bound at import time, whatever the name is bound to now.
corpus_ref_at_import == ImportedList

\* The list the name CODE_DATABASE resolves to inside check_plagiarism.
corpus_ref == CODE_DATABASE

\* The corpus: the list CODE_DATABASE is bound to.
Corpus == heap[CODE_DATABASE]

\* A JSON value that is not a string: a number other than 0.
JsonNumber == <<"number">>

\* zip(code, old_code) raises TypeError when one of the two is a number: the
\* loop over the corpus raises when the code or an entry is not a string.
loop_raises(code, list) ==
    code = JsonNumber \/ \E i \in DOMAIN list : list[i] = JsonNumber

\* check_plagiarism(code): the label it returns and the lists it leaves, or
\* the exception it raises before it has appended anything.
check_plagiarism(code) ==
    IF is_new(code, heap[corpus_ref])
    THEN [label |-> S_New, heap |-> list_append(heap, corpus_ref, code),
          raised |-> FALSE]
    ELSE IF loop_raises(code, heap[corpus_ref])
    THEN [label |-> None, heap |-> heap, raised |-> TRUE]
    ELSE [label |-> percent_label(
                        max_sim_loop(code, heap[corpus_ref], 1,
                                     [num |-> 0, den |-> 1, isfloat |-> FALSE])),
          heap |-> list_append(heap, corpus_ref, code),
          raised |-> FALSE]

\* The list ids no name and no running request refers to.
FreeLists == {id \in ListIds : id # CODE_DATABASE /\ \A t \in Threads : cthr[t].ref # id}

\* A call of check_plagiarism(code), as process_code makes for a student.
CheckPlagiarism ==
    \E code \in Codes :
        /\ Len(heap[corpus_ref]) < MaxCorpus
        /\ \E r \in {check_plagiarism(code)} :
              /\ heap' = r.heap
              /\ sim' = [op |-> "check", code |-> code, label |-> r.label]
        /\ UNCHANGED <<envVars, storeVars, handlerVars, gatewayVars, threadVars, CODE_DATABASE, cthr>>

\* reset_plagiarism: global CODE_DATABASE; CODE_DATABASE = []
\* The old list is dropped once nothing refers to it.  reset_after is a
\* history variable: it marks the requests that had fetched the list for
\* their append, or had appended, when the name was rebound.
ResetPlagiarism ==
    /\ \E new \in {CHOOSE id \in FreeLists : \A other \in FreeLists : id <= other} :
          /\ CODE_DATABASE' = new
          /\ heap' = [id \in ListIds |->
                        IF id = new \/ id \in FreeLists
                              \/ (id = CODE_DATABASE /\ \A t \in Threads : cthr[t].ref # id)
                        THEN <<>> ELSE heap[id]]
    /\ sim' = [op |-> "reset", code |-> <<>>, label |-> <<>>]
    /\ cthr' = [t \in Threads |->
                  IF cthr[t].pc \in {"new_append", "append", "done"}
                  THEN [cthr[t] EXCEPT !.reset_after = TRUE]
                  ELSE cthr[t]]
    /\ UNCHANGED <<envVars, storeVars, handlerVars, gatewayVars, threadVars>>

InitSimilarity ==
    /\ impl = "main"
    /\ GEMINI_AVAILABLE = TRUE
    /\ SYSTEM_GEMINI_KEY = None
    /\ groq_client = TRUE
    /\ ENCRYPTION_AVAILABLE = TRUE
    /\ SECURITY_DEPS_AVAILABLE = TRUE
    /\ BCRYPT_AVAILABLE = TRUE
    /\ NoRequests
    /\ NoStores
    /\ genai_api_key = None
    /\ gw = NoCall
    /\ NoThreads
    /\ EmptyCorpus

NextSimilarity == CheckPlagiarism \/ ResetPlagiarism

SpecSimilarity == InitSimilarity /\ [][NextSimilarity]_vars

(* The properties of the similarity corpus, under SpecSimilarity *)

DigitValue(c) == (CHOOSE d \in DOMAIN Digit : Digit[d] = c) - 1

IsDigit(c) == \E d \in DOMAIN Digit : Digit[d] = c

RECURSIVE DigitsValue(_)
DigitsValue(s) ==
    IF s = <<>> THEN 0
    ELSE 10 * DigitsValue(SubSeq(s, 1, Len(s) - 1)) + DigitValue(s[Len(s)])

\* A label "<digits>%" or "<digits>.<one or two digits>%".
IsPercentLabel(label) ==
    /\ Len(label) >= 2
    /\ label[Len(label)] = "%"
    /\ LET body == SubSeq(label, 1, Len(label) - 1)
           dots == {i \in DOMAIN body : body[i] = "."}
       IN  /\ \A i \in DOMAIN body : IsDigit(body[i]) \/ body[i] = "."
           /\ \/ dots = {}
              \/ \E p \in dots : dots = {p} /\ p > 1 /\ Len(body) - p \in {1, 2}

\* The value of a percent label in hundredths of a percent.
PercentValue(label) ==
    LET body == SubSeq(label, 1, Len(label) - 1)
        dots == {i \in DOMAIN body : body[i] = "."}
    IN  IF dots = {} THEN 100 * DigitsValue(body)
        ELSE LET p == CHOOSE i \in dots : TRUE
                 frac == SubSeq(body, p + 1, Len(body))
             IN  100 * DigitsValue(SubSeq(body, 1, p - 1))
                   + (IF Len(frac) = 1 THEN 10 * DigitsValue(frac) ELSE DigitsValue(frac))

\* Positions at which two strings agree.
Agreeing(code, prior) ==
    Cardinality({i \in DOMAIN code \cap DOMAIN prior : code[i] = prior[i]})

Longer(code, prior) == IF Len(code) >= Len(prior) THEN Len(code) ELSE Len(prior)

Abs(x) == IF x < 0 THEN -x ELSE x

\* The label is the greatest Agreeing / Longer over the prior entries, as a
\* percentage to the nearest hundredth.
LabelIsMaxOverPriors(label, code, priors) ==
    /\ IsPercentLabel(label)
    /\ \E j \in DOMAIN priors :
          /\ \A i \in DOMAIN priors :
                Agreeing(code, priors[i]) * Longer(code, priors[j])
                    <= Agreeing(code, priors[j]) * Longer(code, priors[i])
          /\ IF Longer(code, priors[j]) = 0 THEN PercentValue(label) = 0
             ELSE 2 * Abs(PercentValue(label) * Longer(code, priors[j])
                            - 10000 * Agreeing(code, priors[j]))
                    <= Longer(code, priors[j])

\* C6: the corpus is append-only.  Every check appends exactly its code at
\* the end of the corpus and changes nothing before it, duplicates included;
\* only a reset shrinks the corpus, to empty, and the checks after a reset
\* work on the emptied corpus.
C6_AppendOnly ==
    [][ \/ /\ sim'.op = "check"
           /\ CODE_DATABASE' = CODE_DATABASE
           /\ Corpus' = Append(Corpus, sim'.code)
        \/ /\ sim'.op = "reset"
           /\ Corpus' = <<>> ]_vars

\* The corpus holds the same code twice: nothing was deduplicated.
C6_Witness ==
    /\ sim.op = "check"
    /\ Len(Corpus) = 3
    /\ Corpus[2] = Corpus[3]
    /\ CODE_DATABASE # ImportedList

\* C7: a check on an empty corpus returns "0% (New)" for any code and leaves
\* the corpus holding that code alone.
C7_FirstIsNew ==
    [][ (sim'.op = "check" /\ Corpus = <<>>) =>
            (sim'.label = S_New /\ Corpus' = <<sim'.code>>) ]_vars

\* A non-blank code was the first after a reset.
C7_Witness ==
    /\ sim.op = "check"
    /\ CODE_DATABASE # ImportedList
    /\ Truthy(sim.code)
    /\ sim.label = S_New
    /\ Corpus = <<sim.code>>

\* C8 as stated: on a non-empty corpus, for every code (the empty one
\* included), the label is the maximum over the prior entries, and the code
\* is appended after the comparison.
C8_LabelIsMaxForEveryCode ==
    [][ (sim'.op = "check" /\ Corpus # <<>>) =>
            /\ LabelIsMaxOverPriors(sim'.label, sim'.code, Corpus)
            /\ Corpus' = Append(Corpus, sim'.code) ]_vars

\* C8 amended: on a non-empty corpus, for every non-empty code, the label is
\* the maximum over the prior entries of agreeing positions over the longer
\* length, as a percentage rounded to 2 decimals, and the code is appended
\* after the comparison; an empty code is labelled "0% (New)" and appended.
C8_LabelIsMaxForNonEmptyCode ==
    [][ (sim'.op = "check" /\ Corpus # <<>>) =>
            /\ IF sim'.code # <<>>
               THEN LabelIsMaxOverPriors(sim'.label, sim'.code, Corpus)
               ELSE sim'.label = S_New
            /\ Corpus' = Append(Corpus, sim'.code) ]_vars

\* A check against two prior entries whose best match is one third.
C8_Witness ==
    /\ sim.op = "check"
    /\ Len(Corpus) = 3
    /\ sim.label = <<"3","3",".","3","3","%">>

\* C9 as stated: resubmitting any string the corpus already holds yields 100%.
C9_DuplicateIsHundredForEveryCode ==
    [][ (sim'.op = "check" /\ \E i \in DOMAIN Corpus : Corpus[i] = sim'.code) =>
            (IsPercentLabel(sim'.label) /\ PercentValue(sim'.label) = 10000) ]_vars

\* C9 amended: resubmitting any non-empty string the corpus already holds
\* yields 100%, whatever else the corpus holds.
C9_DuplicateIsHundredForNonEmptyCode ==
    [][ (sim'.op = "check" /\ sim'.code # <<>>
            /\ \E i \in DOMAIN Corpus : Corpus[i] = sim'.code) =>
            (IsPercentLabel(sim'.label) /\ PercentValue(sim'.label) = 10000) ]_vars

\* A code was resubmitted with a different entry before it and after it.
C9_Witness ==
    /\ sim.op = "check"
    /\ Len(Corpus) = 3
    /\ Corpus[2] = Corpus[3]
    /\ Corpus[1] # Corpus[3]
    /\ sim.label = <<"1","0","0",".","0","%">>

-----------------------------------------------------------------------------
(* The corpus under concurrent student reviews and resets.                  *)
(* Each thread serves one student review; the steps are the accesses of    *)
(* check_plagiarism to the global name CODE_DATABASE and to the list it    *)
(* names.  Evaluating CODE_DATABASE.append(code) fetches the list the name *)
(* is bound to and then appends to that list; list.append, the rebinding   *)
(* in reset_plagiarism and each step of the for loop are atomic.           *)

\* The lists after a step: a list nothing refers to any more is dropped.
Collect(h, threads) ==
    [id \in ListIds |->
        IF id = CODE_DATABASE \/ \E t \in Threads : threads[t].ref = id
        THEN h[id] ELSE <<>>]

\* process_code with u_type == "student" reaches check_plagiarism(code).
PlagEnter(t) ==
    /\ cthr[t].pc = "idle"
    /\ \E code \in ThreadCodes : cthr' = [cthr EXCEPT ![t].pc = "test", ![t].code = code]
    /\ UNCHANGED <<envVars, storeVars, handlerVars, gatewayVars, threadVars, heap, CODE_DATABASE, sim>>

\* if not code or not CODE_DATABASE:
PlagTest(t) ==
    /\ cthr[t].pc = "test"
    /\ cthr' = [cthr EXCEPT ![t].pc = IF is_new(cthr[t].code, heap[corpus_ref])
                                      THEN "new_load" ELSE "iter_load"]
    /\ UNCHANGED <<envVars, storeVars, handlerVars, gatewayVars, threadVars, heap, CODE_DATABASE, sim>>

\* CODE_DATABASE.append(code), line 381: the name is evaluated
PlagNewLoad(t) ==
    /\ cthr[t].pc = "new_load"
    /\ cthr' = [cthr EXCEPT ![t].pc = "new_append", ![t].ref = corpus_ref]
    /\ UNCHANGED <<envVars, storeVars, handlerVars, gatewayVars, threadVars, heap, CODE_DATABASE, sim>>

\* CODE_DATABASE.append(code), line 381: the append; return "0% (New)"
PlagNewAppend(t) ==
    /\ cthr[t].pc = "new_append"
    /\ \E after \in {[cthr EXCEPT ![t].pc = "done", ![t].ref = -1, ![t].label = S_New]} :
          /\ cthr' = after
          /\ heap' = Collect(list_append(heap, cthr[t].ref, cthr[t].code), after)
    /\ UNCHANGED <<envVars, storeVars, handlerVars, gatewayVars, threadVars, CODE_DATABASE, sim>>

\* max_sim = 0; for old_code in CODE_DATABASE: the iterator is made
PlagIterLoad(t) ==
    /\ cthr[t].pc = "iter_load"
    /\ cthr' = [cthr EXCEPT ![t].pc = "iter", ![t].ref = corpus_ref, ![t].idx = 1,
                            ![t].num = 0, ![t].den = 1, ![t].isfloat = FALSE]
    /\ UNCHANGED <<envVars, storeVars, handlerVars, gatewayVars, threadVars, heap, CODE_DATABASE, sim>>

\* One turn of the loop: the next element of the list as it is now, or the
\* end of the loop.
PlagIter(t) ==
    /\ cthr[t].pc = "iter"
    /\ IF cthr[t].idx <= Len(heap[cthr[t].ref])
       THEN /\ \E m \in {py_max([num |-> cthr[t].num, den |-> cthr[t].den,
                                  isfloat |-> cthr[t].isfloat],
                                 sim_of(cthr[t].code, heap[cthr[t].ref][cthr[t].idx]))} :
                  cthr' = [cthr EXCEPT ![t].idx = @ + 1, ![t].num = m.num,
                                       ![t].den = m.den, ![t].isfloat = m.isfloat]
            /\ heap' = heap
       ELSE \E after \in {[cthr EXCEPT ![t].pc = "append_load", ![t].ref = -1,
                                        ![t].idx = 0]} :
                  /\ cthr' = after
                  /\ heap' = Collect(heap, after)
    /\ UNCHANGED <<envVars, storeVars, handlerVars, gatewayVars, threadVars, CODE_DATABASE, sim>>

\* CODE_DATABASE.append(code), line 390: the name is evaluated
PlagAppendLoad(t) ==
    /\ cthr[t].pc = "append_load"
    /\ cthr' = [cthr EXCEPT ![t].pc = "append", ![t].ref = corpus_ref]
    /\ UNCHANGED <<envVars, storeVars, handlerVars, gatewayVars, threadVars, heap, CODE_DATABASE, sim>>

\* CODE_DATABASE.append(code), line 390: the append; return the label
PlagAppend(t) ==
    /\ cthr[t].pc = "append"
    /\ \E after \in {[cthr EXCEPT ![t].pc = "done", ![t].ref = -1,
                                   ![t].label = percent_label(
                                       [num |-> cthr[t].num, den |-> cthr[t].den,
                                        isfloat |-> cthr[t].isfloat])]} :
          /\ cthr' = after
          /\ heap' = Collect(list_append(heap, cthr[t].ref, cthr[t].code), after)
    /\ UNCHANGED <<envVars, storeVars, handlerVars, gatewayVars, threadVars, CODE_DATABASE, sim>>

NextCorpusThreads ==
    \/ \E t \in Threads :
          \/ PlagEnter(t)
          \/ PlagTest(t)
          \/ PlagNewLoad(t)
          \/ PlagNewAppend(t)
          \/ PlagIterLoad(t)
          \/ PlagIter(t)
          \/ PlagAppendLoad(t)
          \/ PlagAppend(t)
    \/ ResetPlagiarism

SpecCorpusThreads == InitSimilarity /\ [][NextCorpusThreads]_vars

\* The requests whose append has been executed.
Appended == {t \in Threads : cthr[t].pc = "done"}

Occurrences(list, code) == Cardinality({i \in DOMAIN list : list[i] = code})

-----------------------------------------------------------------------------
(* The Gemini route under concurrent requests.                              *)
(* Each thread serves one request at a time.  A request either runs        *)
(* get_ai_response on the Gemini route (from process_code, generate_code   *)
(* or analyze_complexity) or is a key test, test_gemini_connection.  The   *)
(* steps are the statements of the two functions; genai.configure sets the *)
(* module-wide client configuration, which generate_content reads.         *)

\* get_ai_response is entered with a model that routes to Gemini: the checks
\* before the try block, lines 333-340.
GeminiEnter(t) ==
    /\ thr[t].pc = "idle"
    /\ \E gemini_key \in OptUserKeys :
          IF GEMINI_AVAILABLE /\ Truthy(final_key_of(gemini_key))
          THEN thr' = [thr EXCEPT ![t] = [op |-> "get_ai_response", pc |-> "acquire",
                                          key |-> final_key_of(gemini_key), used |-> None]]
          ELSE thr' = [thr EXCEPT ![t] = [op |-> "get_ai_response", pc |-> "done",
                                          key |-> None, used |-> None]]
    /\ UNCHANGED <<envVars, storeVars, handlerVars, gatewayVars, gemini_lock, corpusVars>>

\* with gemini_lock:  (blocks while another thread holds the lock)
GeminiAcquire(t) ==
    /\ thr[t].pc = "acquire"
    /\ gemini_lock = 0
    /\ gemini_lock' = t
    /\ thr' = [thr EXCEPT ![t].pc = "configure"]
    /\ UNCHANGED <<envVars, storeVars, handlerVars, gatewayVars, corpusVars>>

\* genai.configure(api_key=final_key)
GeminiConfigure(t) ==
    /\ thr[t].pc = "configure"
    /\ genai_api_key' = thr[t].key
    /\ thr' = [thr EXCEPT ![t].pc = "generate"]
    /\ UNCHANGED <<envVars, storeVars, handlerVars, gw, gemini_lock, corpusVars>>

\* gemini_model.generate_content(...): the call goes out with the key the
\* shared client is configured with at this moment.
GeminiGenerate(t) ==
    /\ thr[t].pc = "generate"
    /\ thr' = [thr EXCEPT ![t].pc = "release", ![t].used = genai_api_key]
    /\ UNCHANGED <<envVars, storeVars, handlerVars, gatewayVars, gemini_lock, corpusVars>>

\* leaving the with block, normally or by an exception
GeminiRelease(t) ==
    /\ thr[t].pc = "release"
    /\ gemini_lock' = 0
    /\ thr' = [thr EXCEPT ![t].pc = "done"]
    /\ UNCHANGED <<envVars, storeVars, handlerVars, gatewayVars, corpusVars>>

\* test_gemini_connection is entered: lines 1700-1705.
TestGeminiEnter(t) ==
    /\ thr[t].pc = "idle"
    /\ \E api_key \in OptUserKeys :
          IF Truthy(api_key) /\ GEMINI_AVAILABLE
          THEN thr' = [thr EXCEPT ![t] = [op |-> "test_gemini_connection",
                                          pc |-> "test_configure",
                                          key |-> api_key, used |-> None]]
          ELSE thr' = [thr EXCEPT ![t] = [op |-> "test_gemini_connection", pc |-> "done",
                                          key |-> None, used |-> None]]
    /\ UNCHANGED <<envVars, storeVars, handlerVars, gatewayVars, gemini_lock, corpusVars>>

\* genai.configure(api_key=api_key), line 1708
TestGeminiConfigure(t) ==
    /\ thr[t].pc = "test_configure"
    /\ genai_api_key' = thr[t].key
    /\ thr' = [thr EXCEPT ![t].pc = "test_generate"]
    /\ UNCHANGED <<envVars, storeVars, handlerVars, gw, gemini_lock, corpusVars>>

\* model.generate_content("Hello, just checking connection."), line 1710
TestGeminiGenerate(t) ==
    /\ thr[t].pc = "test_generate"
    /\ thr' = [thr EXCEPT ![t].pc = "done", ![t].used = genai_api_key]
    /\ UNCHANGED <<envVars, storeVars, handlerVars, gatewayVars, gemini_lock, corpusVars>>

\* The request returns and the thread is free for the next one.
RequestReturn(t) ==
    /\ thr[t].pc = "done"
    /\ thr' = [thr EXCEPT ![t] = IdleThread]
    /\ UNCHANGED <<envVars, storeVars, handlerVars, gatewayVars, gemini_lock, corpusVars>>

InitGeminiThreads ==
    /\ impl = "main"
    /\ GEMINI_AVAILABLE \in BOOLEAN
    /\ SYSTEM_GEMINI_KEY \in {None, KeySys}
    /\ groq_client = TRUE
    /\ ENCRYPTION_AVAILABLE = TRUE
    /\ SECURITY_DEPS_AVAILABLE = TRUE
    /\ BCRYPT_AVAILABLE = TRUE
    /\ NoRequests
    /\ NoStores
    /\ genai_api_key = None
    /\ gw = NoCall
    /\ NoThreads
    /\ EmptyCorpus

NextGeminiThreads ==
    \E t \in Threads :
        \/ GeminiEnter(t)
        \/ GeminiAcquire(t)
        \/ GeminiConfigure(t)
        \/ GeminiGenerate(t)
        \/ GeminiRelease(t)
        \/ TestGeminiEnter(t)
        \/ TestGeminiConfigure(t)
        \/ TestGeminiGenerate(t)
        \/ RequestReturn(t)

SpecGeminiThreads == InitGeminiThreads /\ [][NextGeminiThreads]_vars

\* The request has configured the shared client and its generate call has
\* not finished.
InConfigureCallRegion(t) == thr[t].pc \in {"generate", "test_generate"}

-----------------------------------------------------------------------------
(* The request handlers of main.py, one request served at a time.  A      *)
(* payload is a record of the keys a handler reads; None stands for a key *)
(* the payload does not have.                                             *)

S_NA == <<"N","/","A">>

\* cipher_suite.encrypt(secret): a token, here the secret behind a mark
encrypt_secret(secret) ==
    IF ~ENCRYPTION_AVAILABLE \/ ~Truthy(secret) THEN secret ELSE <<"#">> \o secret

\* cipher_suite.decrypt(secret): the secret of a token; anything that is not
\* a token makes decrypt raise, and the value is returned as it is
decrypt_secret(secret) ==
    IF ~ENCRYPTION_AVAILABLE \/ ~Truthy(secret) THEN secret
    ELSE IF Head(secret) = "#" THEN Tail(secret) ELSE secret

\* is_user_admin(username), with no users table to ask
is_user_admin(username) == username = S_admin

\* The check with no exemption for the admin.
check_maintenance_for_all(user) == MAINTENANCE_MODE

\* check_maintenance(user) raises 503
check_maintenance(user) == MAINTENANCE_MODE /\ ~is_user_admin(user)

\* usage = GUEST_USAGE.get(ip, fresh); if now > usage['reset_time']: usage = fresh
guest_usage(ip) ==
    LET fresh == [count |-> 0, reset_time |-> now + Day]
        usage == IF GUEST_USAGE[ip] = NoUsage THEN fresh ELSE GUEST_USAGE[ip]
    IN  IF now > usage.reset_time THEN fresh ELSE usage

\* check_guest_limit with the limit tested after the count is raised
check_guest_limit_count_first(ip, username) ==
    IF Lower(username) = S_guest
    THEN IF guest_usage(ip).count + 1 >= GUEST_DAILY_LIMIT
         THEN [raised |-> TRUE, usage |-> GUEST_USAGE]
         ELSE [raised |-> FALSE,
               usage |-> [GUEST_USAGE EXCEPT
                             ![ip] = [guest_usage(ip) EXCEPT !.count = @ + 1]]]
    ELSE [raised |-> FALSE, usage |-> GUEST_USAGE]

\* check_guest_limit(request, username): whether it raises 403, and
\* GUEST_USAGE as it leaves it
check_guest_limit(ip, username) ==
    IF Lower(username) = S_guest
    THEN IF guest_usage(ip).count >= GUEST_DAILY_LIMIT
         THEN [raised |-> TRUE, usage |-> GUEST_USAGE]
         ELSE [raised |-> FALSE,
               usage |-> [GUEST_USAGE EXCEPT
                             ![ip] = [guest_usage(ip) EXCEPT !.count = @ + 1]]]
    ELSE [raised |-> FALSE, usage |-> GUEST_USAGE]

\* The mapping with the version numbers tested before "gemini".
model_id_numbers_first(model_key) ==
    IF Contains(model_key, S_3_3) THEN S_llama_versatile
    ELSE IF Contains(model_key, S_405) THEN S_llama_reasoning
    ELSE IF Contains(model_key, S_gemini) THEN S_gemini_pro
    ELSE S_mixtral

\* if "gemini" in model_key: model_id = "gemini-pro"
\* else: "llama-3.3-70b-versatile" if "3.3" in model_key
\*       else "llama-3.1-405b-reasoning" if "405" in model_key
\*       else "mixtral-8x7b-32768"
model_id_of(model_key) ==
    IF Contains(model_key, S_gemini) THEN S_gemini_pro
    ELSE IF Contains(model_key, S_3_3) THEN S_llama_versatile
    ELSE IF Contains(model_key, S_405) THEN S_llama_reasoning
    ELSE S_mixtral

\* gemini_key = None; if "gemini" in model_key:
\*     gemini_key = decrypt_secret(USER_SETTINGS.get(username, {}).get("gemini_key"))
gemini_key_of(model_key, username) ==
    IF Contains(model_key, S_gemini) THEN decrypt_secret(USER_SETTINGS[username])
    ELSE None

\* Text without tags through nh3.clean: &, < and > leave as entities.
RECURSIVE nh3_clean(_)
nh3_clean(content) ==
    IF \A i \in DOMAIN content : content[i] \notin {"&", "<", ">"} THEN content
    ELSE (CASE Head(content) = "&" -> <<"&","a","m","p",";">>
            [] Head(content) = "<" -> <<"&","l","t",";">>
            [] Head(content) = ">" -> <<"&","g","t",";">>
            [] OTHER -> <<Head(content)>>)
         \o nh3_clean(Tail(content))

\* sanitize_html(content)
sanitize_html(content) ==
    IF ~SECURITY_DEPS_AVAILABLE THEN content ELSE nh3_clean(content)

\* \w
WordChars ==
    {UpperCase[i] : i \in DOMAIN UpperCase} \cup {LowerCase[i] : i \in DOMAIN LowerCase}
      \cup {"0","1","2","3","4","5","6","7","8","9","_"}

Fence == <<Backtick, Backtick, Backtick>>

\* The position after the run of word characters that starts at j.
RECURSIVE AfterWord(_, _)
AfterWord(text, j) ==
    IF j <= Len(text) /\ text[j] \in WordChars THEN AfterWord(text, j + 1) ELSE j

\* The ends of the shortest non-empty group after position h that a newline
\* and a fence follow.
GroupEnds(text, h) ==
    {e \in (h + 1)..(Len(text) - 4) : SubSeq(text, e + 1, e + 4) = <<"\n">> \o Fence}

\* The pattern matches with its opening fence at i: the fence, an optional
\* run of word characters, a newline, the group, a newline and a fence.
FenceMatchesAt(text, i) ==
    /\ i + 2 <= Len(text)
    /\ \A k \in DOMAIN Fence : text[i + k - 1] = Fence[k]
    /\ AfterWord(text, i + 3) <= Len(text)
    /\ text[AfterWord(text, i + 3)] = "\n"
    /\ GroupEnds(text, AfterWord(text, i + 3)) # {}

\* re.search(r"```(?:\w+)?\n([\s\S]+?)\n```", text): group(1) of the
\* leftmost match, None without a match
fenced_code(text) ==
    IF \E i \in DOMAIN text : FenceMatchesAt(text, i)
    THEN LET i == CHOOSE k \in DOMAIN text :
                    FenceMatchesAt(text, k)
                      /\ \A l \in DOMAIN text : FenceMatchesAt(text, l) => k <= l
             h == AfterWord(text, i + 3)
             e == CHOOSE k \in GroupEnds(text, h) : \A l \in GroupEnds(text, h) : k <= l
         IN  SubSeq(text, h + 1, e)
    ELSE None

-----------------------------------------------------------------------------
(* Prompt construction and response parsing *)

S_enterprise == <<"e","n","t","e","r","p","r","i","s","e">>

S_organisation == <<"o","r","g","a","n","i","s","a","t","i","o","n">>

\* main.py personas["student"]
P_student_main ==
    <<"Y","o","u"," ","a","r","e"," ","a"," ","s","u","p","p","o","r","t","i",
      "v","e"," ","A","I"," ","T","u","t","o","r","."," ","A","n","a","l","y",
      "z","e"," ","t","h","i","s"," ","c","o","d","e"," ","F","A","I","R","L",
      "Y",":","\n","1","."," ","S","t","a","r","t"," ","b","y"," ","a","c",
      "k","n","o","w","l","e","d","g","i","n","g"," ","w","h","a","t"," ","w",
      "a","s"," ","d","o","n","e"," ","W","E","L","L","\n","2","."," ","P",
      "o","i","n","t"," ","o","u","t"," ","O","N","L","Y"," ","a","c","t","u",
      "a","l"," ","b","u","g","s"," ","o","r"," ","l","o","g","i","c","a","l",
      " ","e","r","r","o","r","s"," ","(","n","o","t"," ","s","t","y","l","e",
      " ","p","r","e","f","e","r","e","n","c","e","s",")","\n","3","."," ",
      "S","u","g","g","e","s","t"," ","i","m","p","r","o","v","e","m","e","n",
      "t","s"," ","w","i","t","h"," ","e","x","p","l","a","n","a","t","i","o",
      "n","s","\n","4","."," ","G","i","v","e"," ","h","i","n","t","s"," ",
      "f","o","r"," ","l","e","a","r","n","i","n","g","\n","\n","F","o","r",
      "m","a","t"," ","w","i","t","h",":","\n","#","#","#"," ","S","t","r",
      "e","n","g","t","h","s"," ","(","w","h","a","t","'","s"," ","g","o","o",
      "d",")","\n","#","#","#"," ","I","s","s","u","e","s"," ","(","o","n",
      "l","y"," ","r","e","a","l"," ","b","u","g","s",")","\n","#","#","#",
      " ","S","u","g","g","e","s","t","i","o","n","s"," ","(","i","m","p","r",
      "o","v","e","m","e","n","t","s",")","\n","\n","C","o","d","e"," ","t",
      "o"," ","r","e","v","i","e","w",":">>

\* main.py personas["enterprise"]
P_enterprise_main ==
    <<"Y","o","u"," ","a","r","e"," ","a"," ","S","e","c","u","r","i","t","y",
      " ","A","u","d","i","t","o","r","."," ","R","e","v","i","e","w"," ","t",
      "h","i","s"," ","c","o","d","e"," ","f","o","r",":","\n","1","."," ",
      "O","N","L","Y"," ","g","e","n","u","i","n","e"," ","s","e","c","u","r",
      "i","t","y"," ","v","u","l","n","e","r","a","b","i","l","i","t","i","e",
      "s"," ","(","O","W","A","S","P"," ","T","o","p"," ","1","0",")","\n",
      "2","."," ","C","o","m","p","l","i","a","n","c","e"," ","i","s","s","u",
      "e","s"," ","t","h","a","t"," ","m","a","t","t","e","r","\n","3",".",
      " ","N","O","T"," ","m","i","n","o","r"," ","n","i","t","p","i","c","k",
      "s","\n","\n","I","f"," ","c","o","d","e"," ","i","s"," ","s","e","c",
      "u","r","e",","," ","s","a","y"," ","\"","#","#","#"," ","S","t","r",
      "e","n","g","t","h","s"," ","-"," ","N","o"," ","c","r","i","t","i","c",
      "a","l"," ","s","e","c","u","r","i","t","y"," ","i","s","s","u","e","s",
      " ","f","o","u","n","d","\"","\n","\n","F","o","r","m","a","t"," ","w",
      "i","t","h",":","\n","#","#","#"," ","C","r","i","t","i","c","a","l",
      " ","(","s","e","v","e","r","e"," ","v","u","l","n","e","r","a","b","i",
      "l","i","t","i","e","s"," ","o","n","l","y",")","\n","#","#","#"," ",
      "H","i","g","h"," ","(","i","m","p","o","r","t","a","n","t"," ","s","e",
      "c","u","r","i","t","y"," ","i","s","s","u","e","s",")","\n","#","#",
      "#"," ","S","u","g","g","e","s","t","i","o","n","s"," ","(","i","m","p",
      "r","o","v","e","m","e","n","t","s",")","\n","\n","C","o","d","e"," ",
      "t","o"," ","r","e","v","i","e","w",":">>

\* main.py personas["developer"]
P_developer_main ==
    <<"Y","o","u"," ","a","r","e"," ","a"," ","S","e","n","i","o","r"," ","D",
      "e","v","e","l","o","p","e","r"," ","d","o","i","n","g"," ","c","o","n",
      "s","t","r","u","c","t","i","v","e"," ","c","o","d","e"," ","r","e","v",
      "i","e","w","."," ","A","n","a","l","y","z","e"," ","O","B","J","E","C",
      "T","I","V","E","L","Y",":","\n","1","."," ","S","t","a","r","t"," ",
      "w","i","t","h"," ","w","h","a","t","'","s"," ","d","o","n","e"," ","R",
      "I","G","H","T","\n","2","."," ","P","o","i","n","t"," ","o","u","t",
      " ","O","N","L","Y"," ","r","e","a","l"," ","b","u","g","s",","," ","i",
      "n","e","f","f","i","c","i","e","n","c","i","e","s",","," ","o","r"," ",
      "a","r","c","h","i","t","e","c","t","u","r","a","l"," ","i","s","s","u",
      "e","s","\n","3","."," ","S","u","g","g","e","s","t"," ","o","p","t",
      "i","m","i","z","a","t","i","o","n","s"," ","w","i","t","h"," ","r","e",
      "a","s","o","n","i","n","g","\n","4","."," ","B","e"," ","e","n","c",
      "o","u","r","a","g","i","n","g","\n","\n","F","o","r","m","a","t"," ",
      "w","i","t","h",":","\n","#","#","#"," ","S","t","r","e","n","g","t",
      "h","s"," ","(","g","o","o","d"," ","p","a","t","t","e","r","n","s"," ",
      "u","s","e","d",")","\n","#","#","#"," ","I","s","s","u","e","s"," ",
      "(","r","e","a","l"," ","b","u","g","s"," ","o","r"," ","p","e","r","f",
      "o","r","m","a","n","c","e"," ","p","r","o","b","l","e","m","s",")",
      "\n","#","#","#"," ","S","u","g","g","e","s","t","i","o","n","s"," ",
      "(","i","m","p","r","o","v","e","m","e","n","t","s",")","\n","\n","C",
      "o","d","e"," ","t","o"," ","r","e","v","i","e","w",":">>

\* ai_service.py personas["student"]
P_student_service ==
    <<"Y","o","u"," ","a","r","e"," ","a"," ","s","u","p","p","o","r","t","i",
      "v","e"," ","A","I"," ","T","u","t","o","r","."," ","A","n","a","l","y",
      "z","e"," ","t","h","i","s"," ","c","o","d","e"," ","F","A","I","R","L",
      "Y",":","\n","1","."," ","S","t","a","r","t"," ","b","y"," ","a","c",
      "k","n","o","w","l","e","d","g","i","n","g"," ","w","h","a","t"," ","w",
      "a","s"," ","d","o","n","e"," ","W","E","L","L","\n","2","."," ","P",
      "o","i","n","t"," ","o","u","t"," ","O","N","L","Y"," ","a","c","t","u",
      "a","l"," ","b","u","g","s"," ","o","r"," ","l","o","g","i","c","a","l",
      " ","e","r","r","o","r","s","\n","3","."," ","S","u","g","g","e","s",
      "t"," ","i","m","p","r","o","v","e","m","e","n","t","s"," ","w","i","t",
      "h"," ","e","x","p","l","a","n","a","t","i","o","n","s">>

\* ai_service.py personas["enterprise"]
P_enterprise_service ==
    <<"Y","o","u"," ","a","r","e"," ","a"," ","S","e","c","u","r","i","t","y",
      " ","A","u","d","i","t","o","r","."," ","R","e","v","i","e","w"," ","t",
      "h","i","s"," ","c","o","d","e"," ","f","o","r",":","\n","1","."," ",
      "O","N","L","Y"," ","g","e","n","u","i","n","e"," ","s","e","c","u","r",
      "i","t","y"," ","v","u","l","n","e","r","a","b","i","l","i","t","i","e",
      "s"," ","(","O","W","A","S","P"," ","T","o","p"," ","1","0",")","\n",
      "2","."," ","C","o","m","p","l","i","a","n","c","e"," ","i","s","s","u",
      "e","s"," ","t","h","a","t"," ","m","a","t","t","e","r">>

\* ai_service.py personas["developer"]
P_developer_service ==
    <<"Y","o","u"," ","a","r","e"," ","a"," ","S","e","n","i","o","r"," ","D",
      "e","v","e","l","o","p","e","r"," ","d","o","i","n","g"," ","c","o","n",
      "s","t","r","u","c","t","i","v","e"," ","c","o","d","e"," ","r","e","v",
      "i","e","w","."," ","A","n","a","l","y","z","e"," ","O","B","J","E","C",
      "T","I","V","E","L","Y",":","\n","1","."," ","S","t","a","r","t"," ",
      "w","i","t","h"," ","w","h","a","t","'","s"," ","d","o","n","e"," ","R",
      "I","G","H","T","\n","2","."," ","P","o","i","n","t"," ","o","u","t",
      " ","O","N","L","Y"," ","r","e","a","l"," ","b","u","g","s",","," ","i",
      "n","e","f","f","i","c","i","e","n","c","i","e","s",","," ","o","r"," ",
      "a","r","c","h","i","t","e","c","t","u","r","a","l"," ","i","s","s","u",
      "e","s">>

\* The fallback turned to the tutor.
persona_default_student(user_type) ==
    IF impl = "main"
    THEN CASE user_type = S_enterprise -> P_enterprise_main
           [] user_type = S_developer  -> P_developer_main
           [] OTHER                    -> P_student_main
    ELSE CASE user_type = S_enterprise -> P_enterprise_service
           [] user_type = S_developer  -> P_developer_service
           [] OTHER                    -> P_student_service

\* personas.get(user_type, personas['developer'])
persona_of(user_type) ==
    IF impl = "main"
    THEN CASE user_type = S_student    -> P_student_main
           [] user_type = S_enterprise -> P_enterprise_main
           [] OTHER                    -> P_developer_main
    ELSE CASE user_type = S_student    -> P_student_service
           [] user_type = S_enterprise -> P_enterprise_service
           [] OTHER                    -> P_developer_service

\* return f"{persona}\n{code}"
create_balanced_review_prompt(code, user_type) ==
    persona_of(user_type) \o <<"\n">> \o code

\* "STRICTLY ADHERE TO THE FOLLOWING COMPANY POLICIES:\n"
S_directive ==
    <<"S","T","R","I","C","T","L","Y"," ","A","D","H","E","R","E"," ","T","O",
      " ","T","H","E"," ","F","O","L","L","O","W","I","N","G"," ","C","O",
      "M","P","A","N","Y"," ","P","O","L","I","C","I","E","S",":","\n">>

\* The name COMPANY_POLICIES as inject_policies reads it.  main.py reads its
\* own global, which upload_policy rebinds.  ai_service.py reads the name
\* that `from database import COMPANY_POLICIES` bound at import to "", and
\* no statement of the repository rebinds that name.
policies_read == IF impl = "main" THEN COMPANY_POLICIES ELSE <<>>

\* The policy text attached for every user type.
inject_policies_for_all(prompt, user_type) ==
    IF Truthy(policies_read)
    THEN S_directive \o policies_read \o <<"\n","\n">> \o prompt
    ELSE prompt

\* inject_policies(prompt, user_type)
inject_policies(prompt, user_type) ==
    IF user_type \in {S_enterprise, S_organisation} /\ Truthy(policies_read)
    THEN S_directive \o policies_read \o <<"\n","\n">> \o prompt
    ELSE prompt

\* Stands for a byte that is not valid UTF-8.
InvalidByte == "~"

\* contents.decode('utf-8', errors='ignore'): the bytes that decode, the
\* others dropped
decode_ignore(contents) == SelectSeq(contents, LAMBDA b : b # InvalidByte)

\* The policy text upload_policy leaves in main.py's global:
\* COMPANY_POLICIES = contents.decode('utf-8', errors='ignore')
upload_policy(contents) == decode_ignore(contents)

M_Critical == <<"#","#","#"," ","C","r","i","t","i","c","a","l">>

M_High == <<"#","#","#"," ","H","i","g","h">>

M_Medium == <<"#","#","#"," ","M","e","d","i","u","m">>

M_Low == <<"#","#","#"," ","L","o","w">>

\* The literal pattern matches in text at position i.
MatchesAt(text, pat, i) ==
    i + Len(pat) - 1 <= Len(text) /\ \A k \in DOMAIN pat : text[i + k - 1] = pat[k]

\* The positions from i on where the pattern matches.
MatchesFrom(text, pat, i) ==
    {j \in i..(Len(text) - Len(pat) + 1) : MatchesAt(text, pat, j)}

\* len(re.findall(pat, text)) for a literal, non-empty pattern, scanning
\* from position i: the leftmost match, then the matches after its end
RECURSIVE findall_from(_, _, _)
findall_from(text, pat, i) ==
    LET found == MatchesFrom(text, pat, i)
    IN  IF found = {} THEN 0
        ELSE 1 + findall_from(text, pat,
                              (CHOOSE k \in found : \A l \in found : k <= l) + Len(pat))

\* "stats": {"critical": len(re.findall(r'### Critical', review_text)), ...}
severity_stats(review_text) ==
    [critical |-> findall_from(review_text, M_Critical, 1),
     high     |-> findall_from(review_text, M_High, 1),
     medium   |-> findall_from(review_text, M_Medium, 1),
     low      |-> findall_from(review_text, M_Low, 1)]

S_O_n == <<"O","(","n",")">>

\* The positions of a ")" that r"\(.*?\)" can end at when "O(" starts at
\* i: no line break between the "(" and the ")".
ClosingAfter(text, i) ==
    {j \in (i + 2)..Len(text) :
        text[j] = ")" /\ \A k \in (i + 2)..(j - 1) : text[k] # "\n"}

\* r"O\(.*?\)" matches with its "O" at i.
BigOAt(text, i) ==
    /\ i + 2 <= Len(text)
    /\ text[i] = "O"
    /\ text[i + 1] = "("
    /\ ClosingAfter(text, i) # {}

\* The match taken greedily: up to the last ")" of the line.
big_o_greedy(text) ==
    IF \E i \in DOMAIN text : BigOAt(text, i)
    THEN LET i == CHOOSE k \in DOMAIN text :
                    BigOAt(text, k) /\ \A l \in DOMAIN text : BigOAt(text, l) => k <= l
             j == CHOOSE k \in ClosingAfter(text, i) :
                    \A l \in ClosingAfter(text, i) : k >= l
         IN  SubSeq(text, i, j)
    ELSE S_O_n

\* match = re.search(r"O\(.*?\)", res)
\* return match.group(0) if match else "O(n)"
big_o(text) ==
    IF \E i \in DOMAIN text : BigOAt(text, i)
    THEN LET i == CHOOSE k \in DOMAIN text :
                    BigOAt(text, k) /\ \A l \in DOMAIN text : BigOAt(text, l) => k <= l
             j == CHOOSE k \in ClosingAfter(text, i) :
                    \A l \in ClosingAfter(text, i) : k <= l
         IN  SubSeq(text, i, j)
    ELSE S_O_n

\* The extraction with no fallback: nothing when no fenced block is found.
rewritten_code_no_fallback(review_text, code) ==
    IF fenced_code(review_text) # None THEN fenced_code(review_text) ELSE <<>>

\* code_match = re.search(..., review_text)
\* rewritten = code_match.group(1) if code_match else code
rewritten_code(review_text, code) ==
    IF fenced_code(review_text) # None THEN fenced_code(review_text) ELSE code

WhiteSpace == {" ", "\n", "\t"}

\* str.strip()
RECURSIVE Strip(_)
Strip(s) ==
    IF s = <<>> THEN s
    ELSE IF Head(s) \in WhiteSpace THEN Strip(Tail(s))
    ELSE IF s[Len(s)] \in WhiteSpace THEN Strip(SubSeq(s, 1, Len(s) - 1))
    ELSE s

\* match = re.search(..., gen_text)
\* "generated_code": match.group(1) if match else gen_text.strip()
generated_code(gen_text) ==
    IF fenced_code(gen_text) # None THEN fenced_code(gen_text) ELSE Strip(gen_text)

\* One call of get_ai_response by a handler: what was passed and what it did.
Call(model, gemini_key, outcome) ==
    LET r == get_ai_response(model, gemini_key, outcome)
    IN  [model |-> model, gemini_key |-> gemini_key, route |-> r.route,
         result |-> r.result, configured |-> r.configured, contacted |-> r.contacted]

\* analyze_complexity(code, model=model, gemini_key=gemini_key): its call of
\* get_ai_response and the label it returns
analyze_complexity(code, model, gemini_key, outcome) ==
    LET call == Call(model, gemini_key, outcome)
    IN  [call |-> call, label |-> big_o(call.result)]

\* The key the shared client is left configured with after the calls.
RECURSIVE ConfiguredAfter(_, _)
ConfiguredAfter(calls, key) ==
    IF calls = <<>> THEN key
    ELSE ConfiguredAfter(Tail(calls),
                         IF Head(calls).configured # None THEN Head(calls).configured
                         ELSE key)

\* What a handler keeps of a call in the record of its request.
Kept(call) ==
    [model |-> call.model, gemini_key |-> call.gemini_key, route |-> call.route,
     configured |-> call.configured, contacted |-> call.contacted]

\* A request that ended in an exception: no prompt was built, nothing is
\* returned but the error.
NoBody == [prompt |-> None]

\* A request a check rejected before the handler did anything else; the
\* gateway was not called and returned nothing.
Rejected(status) ==
    [status |-> status, model_key |-> <<>>, calls |-> <<>>, usage |-> GUEST_USAGE,
     stats |-> STUDENT_STATS, heap |-> heap, sim |-> sim, body |-> NoBody,
     returned |-> None]

\* payload.get("code") or payload.get("text") or ""
code_of(payload) == PyOr(PyOr(payload.code, payload.text), <<>>)

\* payload.get("user_type") or payload.get("role") or "developer"
u_type_of(payload) == PyOr(PyOr(payload.user_type, payload.role), S_developer)

\* payload.get("student_name") or payload.get("username")
\*   or payload.get("email") or "Anonymous"
u_name_of(payload) ==
    PyOr(PyOr(PyOr(payload.student_name, payload.username), payload.email), S_Anonymous)

\* process_code(request, payload), lines 485-534
process_code(payload, ip, outcome) ==
    LET code == code_of(payload)
        u_type == u_type_of(payload)
        u_name == u_name_of(payload)
        guest == check_guest_limit(ip, u_name)
        model_key == IF payload.model = None THEN S_model_default ELSE payload.model
        gemini_key == gemini_key_of(model_key, u_name)
        model_id == model_id_of(model_key)
        stats == IF u_type = S_student
                 THEN [STUDENT_STATS EXCEPT ![u_name] = @ + 1]
                 ELSE STUDENT_STATS
        plag == IF u_type = S_student THEN check_plagiarism(code)
                ELSE [label |-> S_NA, heap |-> heap, raised |-> FALSE]
        review_prompt == inject_policies(create_balanced_review_prompt(code, u_type),
                                         u_type)
        review == Call(model_id, gemini_key, outcome)
        review_text == sanitize_html(review.result)
        rewritten == rewritten_code(review_text, code)
        complexity == analyze_complexity(code, model_id, gemini_key, outcome)
        original == analyze_complexity(code, model_id, gemini_key, outcome)
        of_rewritten == analyze_complexity(rewritten, model_id, gemini_key, outcome)
    IN  IF check_maintenance(u_name) THEN Rejected(503)
        ELSE IF guest.raised THEN Rejected(403)
        ELSE IF model_key = JsonNumber
             \* "gemini" in model_key: TypeError, the guest's use already counted
             THEN [Rejected(500) EXCEPT !.usage = guest.usage]
        ELSE IF plag.raised
             \* TypeError in check_plagiarism, the student's review already counted
             THEN [Rejected(500) EXCEPT !.usage = guest.usage, !.stats = stats]
        ELSE [status |-> 200,
              model_key |-> model_key,
              calls |-> <<Kept(review), Kept(complexity.call), Kept(original.call)>>
                        \o (IF Truthy(rewritten) THEN <<Kept(of_rewritten.call)>>
                            ELSE <<>>),
              usage |-> guest.usage,
              stats |-> stats,
              heap |-> plag.heap,
              sim |-> IF u_type = S_student
                      THEN [op |-> "check", code |-> code, label |-> plag.label]
                      ELSE sim,
              body |-> [prompt |-> review_prompt,
                        review |-> review_text,
                        rewritten_code |-> rewritten,
                        complexity |-> complexity.label,
                        time_complexity_original |-> original.label,
                        time_complexity_rewritten |->
                            IF Truthy(rewritten) THEN of_rewritten.label ELSE S_NA,
                        plagiarism |-> plag.label,
                        student_stats |-> stats[u_name],
                        stats |-> severity_stats(review_text)],
              returned |-> review.result]

\* generate_code(request, payload), lines 448-480
generate_code(payload, ip, outcome) ==
    LET model_key == IF payload.model = None THEN S_model_default ELSE payload.model
        username == IF payload.username = None THEN S_guest ELSE payload.username
        guest == check_guest_limit(ip, username)
        gemini_key == gemini_key_of(model_key, username)
        model_id == model_id_of(model_key)
    IN  IF check_maintenance(username) THEN Rejected(503)
        ELSE IF guest.raised THEN Rejected(403)
        ELSE [status |-> 200,
              model_key |-> model_key,
              calls |-> <<Kept(Call(model_id, gemini_key, outcome))>>,
              usage |-> guest.usage,
              stats |-> STUDENT_STATS, heap |-> heap, sim |-> sim, body |-> NoBody]

\* The payloads of review and rewrite requests.
ReviewCodes == {<<>>, <<"a">>}

\* The model keys of the payloads: none, the key of Gemini, that key with
\* capitals, a key that names Gemini and a version number, and a key of the
\* primary provider.
ReviewModels ==
    { None,
      S_gemini_pro,
      <<"G","e","m","i","n","i","-","P","r","o">>,
      <<"g","e","m","i","n","i","-","3",".","3">>,
      <<"l","l","a","m","a","-","3",".","1","-","4","0","5","b">> }

\* A review goes out under the name amy or under no name, a student's
\* review under no name.
ReviewPayloads ==
    {p \in [code : ReviewCodes, text : {None}, user_type : {None, S_student},
            userType : {None}, role : {None}, student_name : {None},
            username : {None, S_amy}, user : {None}, email : {None},
            model : ReviewModels] :
        p.user_type = S_student => (p.username = None /\ p.code # <<>>)}

GeneratePayloads ==
    [prompt : {<<"p">>}, language : {None}, user_type : {None}, role : {None},
     model : ReviewModels, username : {None, S_amy, S_admin}]

SettingsPayloads ==
    [user : {None}, username : {S_amy}, gemini_key : {None, <<>>, Key1}]

\* What the provider does during one request.
RequestOutcomes ==
    { [kind |-> "text", text |-> <<"o","k">>, msg |-> <<>>],
      [kind |-> "fail", text |-> <<>>, msg |-> <<"q","u","o","t","a">>] }

\* What a review or rewrite request leaves in res: the payload, the
\* handler's normalized locals, what the gateway returned for the review
\* and the response.
Reviewed(payload, ip, r) ==
    [op |-> "process_code", payload |-> payload, ip |-> ip, status |-> r.status,
     code |-> code_of(payload), u_type |-> u_type_of(payload),
     u_name |-> u_name_of(payload), called |-> r.calls # <<>>, body |-> r.body,
     returned |-> r.returned]

\* What is kept of a request when only its dispatch is looked at.
Brief(payload, ip, r) == [op |-> "process_code", status |-> r.status]

\* A review or rewrite request from one of the IPs with one of the payloads,
\* everything process_code changes, and in res the request in full or in
\* brief.
ReviewFrom(ips, payloads, outcomes, full) ==
    \E payload \in payloads, ip \in ips, outcome \in outcomes :
        \E r \in {process_code(payload, ip, outcome)} :
            /\ Len(r.heap[CODE_DATABASE]) <= MaxCorpus
            /\ \A u \in Users : r.stats[u] <= MaxReviews
            /\ req' = [op |-> "process_code", status |-> r.status,
                       model_key |-> r.model_key, calls |-> r.calls]
            /\ res' = IF full THEN Reviewed(payload, ip, r) ELSE Brief(payload, ip, r)
            /\ genai_api_key' = ConfiguredAfter(r.calls, genai_api_key)
            /\ GUEST_USAGE' = r.usage
            /\ STUDENT_STATS' = r.stats
            /\ heap' = r.heap
            /\ sim' = r.sim
            /\ UNCHANGED <<envVars, storeVars, gw, threadVars, CODE_DATABASE, cthr, USER_SETTINGS,
                           MAINTENANCE_MODE, now, COMPANY_POLICIES>>

\* A review or rewrite request from the IP all requests come from unless
\* said otherwise.
Review(payloads, outcomes, full) == ReviewFrom(IPs, payloads, outcomes, full)

\* POST /api/review, POST /api/rewrite
ProcessCode == Review(ReviewPayloads, RequestOutcomes, FALSE)

\* POST /api/generate
GenerateCode ==
    \E payload \in GeneratePayloads, ip \in IPs, outcome \in RequestOutcomes :
        \E r \in {generate_code(payload, ip, outcome)} :
            /\ req' = [op |-> "generate_code", status |-> r.status,
                       model_key |-> r.model_key, calls |-> r.calls]
            /\ genai_api_key' = ConfiguredAfter(r.calls, genai_api_key)
            /\ res' = [op |-> "generate_code"]
            /\ GUEST_USAGE' = r.usage
            /\ UNCHANGED <<envVars, storeVars, gw, threadVars, corpusVars, USER_SETTINGS,
                           STUDENT_STATS, MAINTENANCE_MODE, now, COMPANY_POLICIES>>

\* update_settings(payload), lines 1663-1675: the gemini_key of the settings
\* stored for the user
update_settings(payload) ==
    LET user == PyOr(PyOr(payload.user, payload.username), S_default)
        stored == IF payload.gemini_key # None /\ Truthy(payload.gemini_key)
                  THEN encrypt_secret(payload.gemini_key)
                  ELSE payload.gemini_key
    IN  [USER_SETTINGS EXCEPT ![user] = stored]

\* POST /api/settings/update
UpdateSettings ==
    \E payload \in SettingsPayloads :
        /\ USER_SETTINGS' = update_settings(payload)
        /\ req' = [op |-> "update_settings", status |-> 200, model_key |-> <<>>,
                   calls |-> <<>>]
        /\ res' = [op |-> "update_settings"]
        /\ UNCHANGED <<envVars, storeVars, gatewayVars, threadVars, corpusVars, STUDENT_STATS,
                       MAINTENANCE_MODE, GUEST_USAGE, now, COMPANY_POLICIES>>

\* A payload without the key enabled is one with its default, FALSE.
MaintenancePayloads == [username : {None, S_admin, S_amy}, enabled : BOOLEAN]

\* set_maintenance_status(payload), lines 1960-1970: the status it answers
\* with and the flag it leaves
set_maintenance_status(payload) ==
    IF ~Truthy(payload.username) \/ ~is_user_admin(payload.username)
    THEN [status |-> 403, enabled |-> MAINTENANCE_MODE]
    ELSE [status |-> 200, enabled |-> payload.enabled]

\* POST /api/admin/maintenance
SetMaintenanceStatus ==
    \E payload \in MaintenancePayloads :
        /\ MAINTENANCE_MODE' = set_maintenance_status(payload).enabled
        /\ req' = [op |-> "set_maintenance_status",
                   status |-> set_maintenance_status(payload).status,
                   model_key |-> <<>>, calls |-> <<>>]
        /\ res' = [op |-> "set_maintenance_status"]
        /\ UNCHANGED <<envVars, storeVars, gatewayVars, threadVars, corpusVars, USER_SETTINGS,
                       STUDENT_STATS, GUEST_USAGE, now, COMPANY_POLICIES>>

\* The process after import, serving requests with main.py's handlers.
Init ==
    /\ impl = "main"
    /\ GEMINI_AVAILABLE \in BOOLEAN
    /\ SYSTEM_GEMINI_KEY = None
    /\ groq_client = TRUE
    /\ ENCRYPTION_AVAILABLE = TRUE
    /\ SECURITY_DEPS_AVAILABLE = TRUE
    /\ BCRYPT_AVAILABLE = TRUE
    /\ NoRequests
    /\ NoStores
    /\ genai_api_key = None
    /\ gw = NoCall
    /\ NoThreads
    /\ EmptyCorpus

Next == ProcessCode \/ GenerateCode \/ UpdateSettings \/ SetMaintenanceStatus

Spec == Init /\ [][Next]_vars

\* The request was dispatched to the secondary provider: each of its calls
\* of get_ai_response took the Gemini branch, and contacted Gemini or no
\* provider at all.
DispatchedToSecondary ==
    \A i \in DOMAIN req.calls :
        /\ req.calls[i].route = "gemini"
        /\ req.calls[i].contacted \in {"gemini", "none"}

\* The request was dispatched to the primary chat-completion provider.
DispatchedToPrimary ==
    \A i \in DOMAIN req.calls :
        req.calls[i].route = "groq" /\ req.calls[i].contacted = "groq"

\* C5: a review, rewrite or generate request that reaches the model gateway
\* is dispatched to the secondary provider if the model key of its payload
\* contains "gemini", and to the primary chat-completion provider otherwise,
\* in every call of the gateway the request makes.
C5_DispatchByModelKey ==
    (req.op \in {"process_code", "generate_code"} /\ req.status = 200) =>
        /\ req.calls # <<>>
        /\ IF Contains(req.model_key, S_gemini)
           THEN DispatchedToSecondary
           ELSE DispatchedToPrimary

\* A review whose model key names Gemini and a version number reached Gemini
\* with the user's stored key in all four calls.
C5_Witness ==
    /\ req.op = "process_code"
    /\ req.status = 200
    /\ req.model_key = <<"g","e","m","i","n","i","-","3",".","3">>
    /\ Len(req.calls) = 4
    /\ \A i \in DOMAIN req.calls :
          req.calls[i].contacted = "gemini" /\ req.calls[i].configured = Key1

-----------------------------------------------------------------------------
(* The properties of the gateway, under SpecGateway *)

\* C3: get_ai_response never propagates an exception; it returns a string,
\* and whenever the provider failed, was unconfigured or was unavailable that
\* string begins with "Error:".
C3_ErrorPrefixOnFailure ==
    gw.op = "get_ai_response" =>
        /\ ~gw.raised
        /\ gw.result \in Seq(Chars)
        /\ gw.failed => StartsWith(gw.result, S_Error_colon)

\* C4: a call routed to the secondary provider configures the client with the
\* caller's key when one is given and with the system-wide key otherwise; with
\* no key at all, or without the library, it returns its descriptive error
\* string and neither takes the lock, nor configures, nor contacts a provider.
C4_KeyPrecedenceFailClosed ==
    (gw.op = "get_ai_response" /\ Contains(Lower(gw.model), S_gemini)) =>
        IF GEMINI_AVAILABLE /\ (Truthy(gw.gemini_key) \/ Truthy(SYSTEM_GEMINI_KEY))
        THEN /\ gw.locked
             /\ gw.contacted = "gemini"
             /\ gw.configured =
                    (IF Truthy(gw.gemini_key) THEN gw.gemini_key ELSE SYSTEM_GEMINI_KEY)
             /\ genai_api_key = gw.configured
        ELSE /\ gw.result =
                    (IF ~GEMINI_AVAILABLE
                     THEN (IF impl = "main" THEN E_LIB_main ELSE E_LIB_service)
                     ELSE (IF impl = "main" THEN E_KEY_main ELSE E_KEY_service))
             /\ StartsWith(gw.result, S_Error_colon)
             /\ ~gw.raised
             /\ ~gw.locked
             /\ gw.configured = None
             /\ gw.contacted = "none"

\* A caller's key took precedence over a system-wide key that was also set.
C4_Witness ==
    /\ gw.op = "get_ai_response"
    /\ gw.gemini_key = Key1
    /\ SYSTEM_GEMINI_KEY = KeySys
    /\ gw.configured = Key1
    /\ gw.contacted = "gemini"

-----------------------------------------------------------------------------
(* Review and rewrite requests: how process_code normalizes a payload and *)
(* what it builds from it.                                                 *)

S_teacher == <<"t","e","a","c","h","e","r">>

\* A payload with code and no other key.
BasePayload ==
    [code |-> <<"a">>, text |-> None, user_type |-> None, userType |-> None,
     role |-> None, student_name |-> None, username |-> None, user |-> None,
     email |-> None, model |-> None]

\* Payloads with and without the keys code and text: absent, empty, of
\* white space only, or code.
CodePayloads ==
    {[BasePayload EXCEPT !.code = c, !.text = t] :
        c \in {None, <<>>, <<" ">>, <<"a">>}, t \in {None, <<" ","\n">>, <<"b">>}}

\* Payloads with and without the keys user_type, userType and role.
TypePayloads ==
    {[BasePayload EXCEPT !.user_type = a, !.userType = b, !.role = c] :
        a \in {None, S_student, S_teacher},
        b \in {None, S_student},
        c \in {None, S_enterprise, S_organisation}}

NormPayloads == CodePayloads \cup TypePayloads

\* A review with two of the severity headings, a fenced rewrite and a
\* complexity.
ReviewText ==
    <<"#","#","#"," ","C","r","i","t","i","c","a","l","\n",
      "#","#","#"," ","H","i","g","h","\n",
      Backtick,Backtick,Backtick,"p","y","\n","b","\n",Backtick,Backtick,Backtick,
      "\n","O","(","1",")">>

\* What the provider does during one review: it answers with a review or
\* with a plain word, or the call fails.
ReviewOutcomes ==
    { [kind |-> "text", text |-> ReviewText, msg |-> <<>>],
      [kind |-> "text", text |-> <<"o","k">>, msg |-> <<>>],
      [kind |-> "fail", text |-> <<>>, msg |-> <<"q","u","o","t","a">>] }

\* The files uploaded as policies: an empty one and a policy.
PolicyFiles == {<<>>, <<"n","o"," ","e","v","a","l">>}

\* POST /api/upload-policy with one of the files, a route of main.py's app
Upload(files) ==
    \E contents \in files :
        /\ impl = "main"
        /\ COMPANY_POLICIES' = upload_policy(contents)
        /\ res' = [op |-> "upload_policy", contents |-> contents]
        /\ req' = [op |-> "upload_policy", status |-> 200, model_key |-> <<>>,
                   calls |-> <<>>, contents |-> contents]
        /\ UNCHANGED <<envVars, storeVars, gatewayVars, threadVars, corpusVars, USER_SETTINGS,
                       STUDENT_STATS, MAINTENANCE_MODE, GUEST_USAGE, now>>

UploadPolicy == Upload(PolicyFiles)

\* POST /api/review, POST /api/rewrite, with the payloads of this section
ReviewRequest == Review(NormPayloads, ReviewOutcomes, TRUE)

NextReview == ReviewRequest \/ UploadPolicy

\* main.py after import, with the Gemini library installed.
InitReview == Init /\ GEMINI_AVAILABLE

\* main.py serving reviews and policy uploads.
SpecReview == InitReview /\ [][NextReview]_vars

\* None, "" or white space only
IsBlank(s) == s = None \/ \A i \in DOMAIN s : s[i] \in {" ", "\n", "\t"}

\* C11: a review or rewrite request whose payload has neither code nor text,
\* or only blank ones, is rejected with a client error: no prompt is built,
\* no provider is called and no result is returned.
C11_EmptyInputRejected ==
    (res.op = "process_code" /\ IsBlank(res.payload.code) /\ IsBlank(res.payload.text)) =>
        /\ res.status \in 400..499
        /\ res.body.prompt = None
        /\ ~res.called

-----------------------------------------------------------------------------
(* Review and rewrite requests under the maintenance flag and the guest    *)
(* limit.                                                                  *)

\* Payloads with and without each of the keys a requester can be named by;
\* the students among them are named sam or guest.
NamePayloads ==
    {p \in {[BasePayload EXCEPT !.student_name = a, !.username = b, !.user = c,
                                !.email = d, !.user_type = t] :
                a \in {None, S_sam}, b \in {None, S_guest}, c \in {None, S_admin},
                d \in {None, S_mail}, t \in {None, S_student}} :
        p.user_type = S_student => (p.username = S_guest /\ p.user = None /\ p.email = None)}

\* Payloads of the admin and of a guest in capitals, with a model key that
\* is absent or a number.
GatePayloads ==
    {[BasePayload EXCEPT !.username = b, !.model = k] :
        b \in {None, S_admin, S_Guest}, k \in {None, JsonNumber}}

\* The provider answers every call.
GateOutcomes == { [kind |-> "text", text |-> <<"o","k">>, msg |-> <<>>] }

\* POST /api/review, POST /api/rewrite, with the payloads of this section
GatedReview == Review(NamePayloads \cup GatePayloads, GateOutcomes, TRUE)

NextGate == GatedReview \/ SetMaintenanceStatus

\* main.py serving reviews while the admin switches the maintenance flag.
SpecGate == InitReview /\ [][NextGate]_vars

-----------------------------------------------------------------------------
(* The properties of payload normalization, under SpecReview and SpecGate *)

KnownTypes == {S_student, S_enterprise, S_organisation, S_developer}

\* The value under the first of the keys that the payload has.
FirstPresent(values) ==
    IF \E i \in DOMAIN values : values[i] # None
    THEN values[CHOOSE i \in DOMAIN values :
                    values[i] # None /\ \A j \in 1..(i - 1) : values[j] = None]
    ELSE None

\* The user type C13 describes: the value under user_type, else userType,
\* else role, and developer when that is no known type.
DescribedType(payload) ==
    LET found == FirstPresent(<<payload.user_type, payload.userType, payload.role>>)
    IN  IF found \in KnownTypes THEN found ELSE S_developer

\* C13: the user type of a review or rewrite request is the value under
\* user_type, else userType, else role, and developer when none is present
\* or the value is no known type; the persona, the policy injection, the
\* similarity check and the student count of the request all go by it.
C13_UserTypeNormalized ==
    [][(res'.op = "process_code" /\ res'.status = 200) =>
          LET t == DescribedType(res'.payload) IN
          /\ res'.body.prompt =
                inject_policies(create_balanced_review_prompt(res'.code, t), t)
          /\ (res'.body.plagiarism # S_NA) <=> (t = S_student)
          /\ STUDENT_STATS'[res'.u_name] =
                STUDENT_STATS[res'.u_name] + (IF t = S_student THEN 1 ELSE 0)]_vars

\* The requester id C14 describes: the value under student_name, else
\* username, else user, else email, and the sentinel when none is present.
DescribedName(payload) ==
    LET found == FirstPresent(<<payload.student_name, payload.username, payload.user,
                                payload.email>>)
    IN  IF found # None THEN found ELSE S_Anonymous

\* C14: the requester id of a review or rewrite request is the value under
\* student_name, else username (or user), else email, and the sentinel
\* "Anonymous" when none is present; the maintenance check, the guest-limit
\* check and the student count all go by that one id.
C14_RequesterIdResolved ==
    [][(res'.op = "process_code" /\ res'.payload.model = None) =>
          LET n == DescribedName(res'.payload)
              over == Lower(n) = S_guest
                        /\ GUEST_USAGE[res'.ip].count >= GUEST_DAILY_LIMIT
          IN
          /\ res'.status = (IF MAINTENANCE_MODE /\ n # S_admin THEN 503
                            ELSE IF over THEN 403 ELSE 200)
          /\ res'.status = 200 =>
                /\ GUEST_USAGE'[res'.ip].count =
                      GUEST_USAGE[res'.ip].count + (IF Lower(n) = S_guest THEN 1 ELSE 0)
                /\ \A u \in Users :
                      STUDENT_STATS'[u] = STUDENT_STATS[u]
                        + (IF u = n /\ res'.u_type = S_student THEN 1 ELSE 0)]_vars

-----------------------------------------------------------------------------
(* The prompt builders and the response parsers on their own: each         *)
(* operation below is one call of a function of main.py or, with impl =    *)
(* "ai_service", of its namesake in ai_service.py.                         *)

\* The user types callers pass: none, the three with a persona, and four
\* without one.
UserTypes ==
    {None, <<>>, S_student, S_enterprise, S_developer, S_organisation, S_teacher,
     <<"S","t","u","d","e","n","t">>}

PromptCodes == {<<>>, <<"a">>, <<"\n","a","\n">>}

\* create_balanced_review_prompt(code, user_type)
ResolvePersona ==
    \E code \in PromptCodes, user_type \in UserTypes :
        /\ res' = [op |-> "create_balanced_review_prompt", code |-> code,
                   user_type |-> user_type,
                   prompt |-> create_balanced_review_prompt(code, user_type)]
        /\ UNCHANGED <<envVars, storeVars, gatewayVars, threadVars, corpusVars, USER_SETTINGS,
                       STUDENT_STATS, MAINTENANCE_MODE, GUEST_USAGE, now, req,
                       COMPANY_POLICIES>>

\* Either module after import, with the Gemini library and the key of the
\* chat provider but no system-wide Gemini key.
InitPipeline ==
    /\ impl \in {"main", "ai_service"}
    /\ GEMINI_AVAILABLE = TRUE
    /\ SYSTEM_GEMINI_KEY = None
    /\ groq_client = TRUE
    /\ ENCRYPTION_AVAILABLE = TRUE
    /\ SECURITY_DEPS_AVAILABLE = TRUE
    /\ BCRYPT_AVAILABLE = TRUE
    /\ NoRequests
    /\ NoStores
    /\ genai_api_key = None
    /\ gw = NoCall
    /\ NoThreads
    /\ EmptyCorpus

\* The instruction blocks of the module in use.
Personas ==
    IF impl = "main" THEN {P_student_main, P_enterprise_main, P_developer_main}
    ELSE {P_student_service, P_enterprise_service, P_developer_service}

DeveloperPersona == IF impl = "main" THEN P_developer_main ELSE P_developer_service

\* C15: the prompt built for a user type holds exactly one instruction
\* block, followed by the code; for every user type other than student and
\* enterprise, a missing one included, that block is the developer persona,
\* character for character.
C15_PersonaResolution ==
    res.op = "create_balanced_review_prompt" =>
        /\ Cardinality({p \in Personas : res.prompt = p \o <<"\n">> \o res.code}) = 1
        /\ Cardinality({p \in Personas : StartsWith(res.prompt, p)}) = 1
        /\ res.user_type \notin {S_student, S_enterprise} =>
              res.prompt = DeveloperPersona \o <<"\n">> \o res.code
        /\ res.user_type = S_student => ~StartsWith(res.prompt, DeveloperPersona)
        /\ res.user_type = S_enterprise => ~StartsWith(res.prompt, DeveloperPersona)

\* A prompt was built for a request without a user type, and it begins with
\* the developer persona of ai_service.py.
C15_Witness ==
    /\ res.op = "create_balanced_review_prompt"
    /\ res.user_type = None
    /\ impl = "ai_service"
    /\ StartsWith(res.prompt, P_developer_service)

\* The files uploaded as policies, one of them with a byte that does not
\* decode.
AnyPolicyFiles == PolicyFiles \cup {<<"p",InvalidByte,"3">>}

UploadAnyPolicy == Upload(AnyPolicyFiles)

InjectedPrompts == {<<>>, <<"x">>}

\* inject_policies(prompt, user_type)
InjectPolicies ==
    \E prompt \in InjectedPrompts, user_type \in UserTypes :
        /\ res' = [op |-> "inject_policies", prompt |-> prompt, user_type |-> user_type,
                   injected |-> inject_policies(prompt, user_type)]
        /\ UNCHANGED <<envVars, storeVars, gatewayVars, threadVars, corpusVars, USER_SETTINGS,
                       STUDENT_STATS, MAINTENANCE_MODE, GUEST_USAGE, now, req,
                       COMPANY_POLICIES>>

\* The text of the policy uploaded last: the file's bytes that decode, and
\* "" before any upload.
LastPolicyText ==
    IF req.op = "upload_policy"
    THEN SelectSeq(req.contents, LAMBDA b : b # InvalidByte)
    ELSE <<>>

\* C16: after any uploads, inject_policies returns the directive, the text
\* of the policy uploaded last, an empty line and the prompt when the user
\* type is enterprise or organisation and that text is not empty; in every
\* other case it returns the prompt as it is.
C16_PolicyInjection ==
    res.op = "inject_policies" =>
        res.injected =
            (IF res.user_type \in {S_enterprise, S_organisation} /\ LastPolicyText # <<>>
             THEN S_directive \o LastPolicyText \o <<"\n","\n">> \o res.prompt
             ELSE res.prompt)

\* A prompt for an organisation got the policy that was uploaded last.
C16_Witness ==
    /\ res.op = "inject_policies"
    /\ res.user_type = S_organisation
    /\ req.op = "upload_policy"
    /\ req.contents = <<"p",InvalidByte,"3">>
    /\ res.prompt = <<"x">>
    /\ res.injected = S_directive \o <<"p","3","\n","\n","x">>

\* The headings the response parser counts.
CountedMarkers == {M_Critical, M_High, M_Medium, M_Low}

\* The counted headings that a prompt names, in any letter case.
RequestedMarkers(prompt) ==
    {m \in CountedMarkers : Contains(Lower(prompt), Lower(m))}

\* C17: every prompt built for a review or rewrite, for every user type,
\* names the four headings ### Critical, ### High, ### Medium and ### Low,
\* the ones the response parser counts.
C17_PromptRequestsCountedMarkers ==
    (res.op = "process_code" /\ res.status = 200) =>
        RequestedMarkers(res.body.prompt) = CountedMarkers

\* Bound: the pieces a review text of the parser's inputs is made of.
MaxSegments == 2

\* The pieces: the counted headings, a heading in small letters and a
\* longer heading.
Segments ==
    { M_Critical \o <<"\n">>, M_High \o <<"\n">>, M_Medium \o <<"\n">> \o M_Low \o <<"\n">>,
      <<"#","#","#"," ","c","r","i","t","i","c","a","l","\n">>,
      <<"#","#","#","#"," ","H","i","g","h"," ","P","r","i","o","r","i","t","y","\n">> }

RECURSIVE Flat(_)
Flat(pieces) == IF pieces = <<>> THEN <<>> ELSE Head(pieces) \o Flat(Tail(pieces))

\* The review texts handed to the parser.
SeverityTexts == {Flat(s) : s \in UNION {[1..n -> Segments] : n \in 0..MaxSegments}}

\* "stats": {...} of process_code, lines 528-533, for a review text
CountSeverity ==
    \E text \in SeverityTexts :
        /\ res' = [op |-> "severity_stats", text |-> text, stats |-> severity_stats(text)]
        /\ UNCHANGED <<envVars, storeVars, gatewayVars, threadVars, corpusVars, USER_SETTINGS,
                       STUDENT_STATS, MAINTENANCE_MODE, GUEST_USAGE, now, req,
                       COMPANY_POLICIES>>

\* The number of places where the marker stands in the text, letter case
\* ignored.
OccurrencesIgnoringCase(text, marker) ==
    Cardinality({i \in DOMAIN text : MatchesAt(Lower(text), Lower(marker), i)})

\* C18: each of the four severity counts of a review text is the number of
\* occurrences of its marker in the text, letter case ignored; repeated
\* markers add up and a text without markers counts 0 four times.
C18_CountsIgnoreCase ==
    res.op = "severity_stats" =>
        /\ res.stats.critical = OccurrencesIgnoringCase(res.text, M_Critical)
        /\ res.stats.high = OccurrencesIgnoringCase(res.text, M_High)
        /\ res.stats.medium = OccurrencesIgnoringCase(res.text, M_Medium)
        /\ res.stats.low = OccurrencesIgnoringCase(res.text, M_Low)

\* The language tags of fenced blocks: none, a word, and a name that is not
\* made of word characters only.
Languages == {<<>>, <<"p","y">>, <<"c","+","+">>}

\* The codes inside the fences: empty, with leading and trailing newlines,
\* with a comparison, with two backticks.
FencedCodes ==
    { <<>>, <<"a">>, <<"\n","a">>, <<"a","\n">>, <<"\n">>, <<"a","\n","b">>,
      <<"a"," ","<"," ","b">>, <<"a",Backtick,Backtick>> }

\* The code of the request, which process_code falls back to.
SubmittedCodes == {<<"i">>}

\* The fenced form of a code: the fence and the language tag on a line, the
\* code, and the fence on a line of its own.
FencedForm(language, code) == Fence \o language \o <<"\n">> \o code \o <<"\n">> \o Fence

\* The extraction of process_code (lines 514-518, route "review") or of
\* generate_code (lines 479-480, route "generate") from a provider text that
\* is a sentence and the fenced form of a code.
ExtractCode ==
    \E language \in Languages, code \in FencedCodes, submitted \in SubmittedCodes,
       route \in {"review", "generate"}, intro \in {<<"H","e","r","e",":","\n">>} :
        /\ res' = [op |-> "extract_code", route |-> route, language |-> language,
                   code |-> code, submitted |-> submitted, intro |-> intro,
                   extracted |->
                       IF route = "review"
                       THEN rewritten_code(
                                sanitize_html(intro \o FencedForm(language, code)),
                                submitted)
                       ELSE generated_code(intro \o FencedForm(language, code))]
        /\ UNCHANGED <<envVars, storeVars, gatewayVars, threadVars, corpusVars, USER_SETTINGS,
                       STUDENT_STATS, MAINTENANCE_MODE, GUEST_USAGE, now, req,
                       COMPANY_POLICIES>>

\* C19: for every language tag and every code without three backticks in a
\* row, the empty code and codes with leading or trailing newlines included,
\* extracting the first fenced block from the fenced form of the code
\* returns exactly the code.
C19_ExtractionInvertsFencing ==
    (res.op = "extract_code" /\ ~Contains(res.code, Fence)) => res.extracted = res.code

\* What the provider answers when asked for a complexity: nothing, a
\* label, a sentence with a label, two labels, none, an empty pair of
\* brackets, a bracket left open, one closed on the next line before a
\* label, a small letter.
ComplexityTexts ==
    { <<>>,
      <<"O","(","n",")">>,
      <<"I","t"," ","i","s"," ","O","(","1",")",".">>,
      <<"O","(","n"," ","l","o","g"," ","n",")"," ","o","r"," ","O","(","n",")">>,
      <<"n","o"," ","i","d","e","a">>,
      <<"O","(",")">>,
      <<"O","(","n">>,
      <<"O","(","\n","n",")"," ","O","(","1",")">>,
      <<"o","(","n",")">> }

\* What the provider does with the call of analyze_complexity.
ComplexityOutcomes ==
    [kind : {"text"}, text : ComplexityTexts, msg : {<<>>}]
      \cup {[kind |-> "notext", text |-> <<>>, msg |-> NoTextError]}
      \cup {[kind |-> "fail", text |-> <<>>, msg |-> <<"q","u","o","t","a">>]}

\* analyze_complexity(code, model=model, gemini_key=gemini_key)
AnalyzeComplexity ==
    \E code \in PromptCodes, model \in {S_llama_versatile, S_gemini_pro},
       gemini_key \in {None}, outcome \in ComplexityOutcomes :
        \E r \in {analyze_complexity(code, model, gemini_key, outcome)} :
            /\ res' = [op |-> "analyze_complexity", output |-> r.call.result,
                       label |-> r.label]
            /\ genai_api_key' = ConfiguredAfter(<<r.call>>, genai_api_key)
            /\ UNCHANGED <<envVars, storeVars, gw, threadVars, corpusVars, USER_SETTINGS,
                           STUDENT_STATS, MAINTENANCE_MODE, GUEST_USAGE, now, req,
                           COMPANY_POLICIES>>

NextPipeline ==
    \/ ResolvePersona
    \/ UploadAnyPolicy
    \/ InjectPolicies
    \/ CountSeverity
    \/ ExtractCode
    \/ AnalyzeComplexity

\* The functions of the pipeline called one after another, in any order.
SpecPipeline == InitPipeline /\ [][NextPipeline]_vars

\* An O(...) token of the text: "O(" at i and the next ")" at j, on one line.
TokenAt(text, i, j) ==
    /\ i + 2 <= j
    /\ j <= Len(text)
    /\ text[i] = "O"
    /\ text[i + 1] = "("
    /\ text[j] = ")"
    /\ \A k \in (i + 2)..(j - 1) : text[k] \notin {")", "\n"}

\* C20: the complexity label is never empty: it is the first O(...) token of
\* what the gateway returned when there is one, and "O(n)" otherwise, also
\* for an error string and for an empty answer.
C20_LabelIsFirstTokenOrDefault ==
    res.op = "analyze_complexity" =>
        /\ res.label # <<>>
        /\ IF \E i, j \in DOMAIN res.output : TokenAt(res.output, i, j)
           THEN \E i, j \in DOMAIN res.output :
                    /\ TokenAt(res.output, i, j)
                    /\ \A k, l \in DOMAIN res.output : TokenAt(res.output, k, l) => i <= k
                    /\ res.label = SubSeq(res.output, i, j)
           ELSE res.label = S_O_n

\* The provider named two complexities and the label is the first.
C20_Witness ==
    /\ res.op = "analyze_complexity"
    /\ res.output =
          <<"O","(","n"," ","l","o","g"," ","n",")"," ","o","r"," ","O","(","n",")">>
    /\ res.label = <<"O","(","n"," ","l","o","g"," ","n",")">>

-----------------------------------------------------------------------------
(* Review and rewrite requests answered by a provider that fails, or that  *)
(* answers with a text of no expected form.                                *)

\* Payloads with code under either key or under none, for the primary
\* provider and for Gemini, from amy or from nobody.
FallbackPayloads ==
    {[BasePayload EXCEPT !.code = c, !.text = t, !.model = k, !.username = u] :
        c \in {None, <<"a">>}, t \in {None, <<"b">>}, k \in {None, S_gemini_pro},
        u \in {None, S_amy}}

\* Answers of no expected form: none, a word, a comparison, a heading in
\* small letters, a fence that is never closed, a bracket left open.
PlainTexts ==
    { <<>>,
      <<"o","k">>,
      <<"a"," ","<"," ","b">>,
      <<"#","#","#"," ","h","i","g","h">>,
      Fence \o <<"p","y","\n","b">>,
      <<"O","(","n">> }

\* What the provider does during one request: it answers with a text of no
\* expected form or with a review, it answers without a text, or the call
\* fails.
FallbackOutcomes ==
    [kind : {"text"}, text : PlainTexts \cup {ReviewText}, msg : {<<>>}]
      \cup {[kind |-> "notext", text |-> <<>>, msg |-> NoTextError]}
      \cup {[kind |-> "fail", text |-> <<>>, msg |-> <<"q","u","o","t","a">>]}

\* POST /api/review, POST /api/rewrite, with the payloads of this section
FallbackReview == Review(FallbackPayloads, FallbackOutcomes, TRUE)

NextFallback == FallbackReview \/ UpdateSettings

\* main.py serving reviews, with or without the Gemini library, while amy
\* stores and removes her Gemini key.
SpecFallback == Init /\ [][NextFallback]_vars

\* The text has none of the forms the parsers look for: no counted heading,
\* no fenced block, no O(...) token.
IsPlain(text) ==
    /\ \A m \in CountedMarkers : ~Contains(text, m)
    /\ fenced_code(text) = None
    /\ ~\E i, j \in DOMAIN text : TokenAt(text, i, j)

\* The gateway's answer is an "Error:" string or a text of no expected form.
SoftFailure(text) == StartsWith(text, S_Error_colon) \/ IsPlain(text)

NoSeverity == [critical |-> 0, high |-> 0, medium |-> 0, low |-> 0]

Entity(c) ==
    CASE c = "&" -> <<"&","a","m","p",";">>
      [] c = "<" -> <<"&","l","t",";">>
      [] c = ">" -> <<"&","g","t",";">>
      [] OTHER   -> <<c>>

-----------------------------------------------------------------------------
(* Accounts: signup, login, profile update, password reset and deletion,   *)
(* served from the in-memory USER_DB: get_db_connection() returns None, as *)
(* it does without a MySQL server.                                         *)

S_Amy == <<"A","m","y">>

S_mail2 == <<"c","@","d">>

S_Invalid_credentials ==
    <<"I","n","v","a","l","i","d"," ","c","r","e","d","e","n","t","i","a","l","s">>

\* ACCESS_TOKEN_EXPIRE_MINUTES = 60, in seconds
TokenLifetime == 3600

\* create_access_token(data): the claims that jwt.encode signs
create_access_token(data) == [sub |-> data.sub, role |-> data.role, exp |-> now + TokenLifetime]

\* payload.get(key, "") for a key the payload may not have
GetOrEmpty(value) == IF value = None THEN <<>> ELSE value

\* for k in USER_DB: if k.lower() == username_input.lower()
\*        or USER_DB[k].get("email", "").lower() == username_input.lower():
\*     found_key = k; break
\* The position of found_key in USER_DB, 0 when nothing is found.
found_key(username_input) ==
    LET hits == {i \in DOMAIN USER_DB :
                    \/ Lower(USER_DB[i].username) = Lower(username_input)
                    \/ Lower(USER_DB[i].email) = Lower(username_input)}
    IN  IF hits = {} THEN 0 ELSE CHOOSE i \in hits : \A j \in hits : i <= j

S_user == <<"u","s","e","r">>

\* The role of a key of USER_DB.
role_of(key) == IF key = S_admin THEN S_admin ELSE S_user

\* login(payload), lines 539-592
login(payload) ==
    LET username_input == Strip(GetOrEmpty(payload.username))
        password == Strip(GetOrEmpty(payload.password))
        i == found_key(username_input)
        verified == i # 0 /\ verify_password(password, USER_DB[i].password)
        \* Emergency fallback for admin
        emergency == i # 0 /\ ~verified /\ USER_DB[i].username = S_admin
                        /\ password = admin_pwd
    IN  IF ~verified /\ ~emergency
        THEN [status |-> 401, detail |-> S_Invalid_credentials, token |-> NoToken,
              username |-> None]
        ELSE IF MAINTENANCE_MODE /\ role_of(USER_DB[i].username) # S_admin
        THEN [status |-> 503, detail |-> <<>>, token |-> NoToken, username |-> None]
        ELSE [status |-> 200, detail |-> <<>>,
              token |-> create_access_token([sub |-> USER_DB[i].username,
                                             role |-> role_of(USER_DB[i].username)]),
              username |-> USER_DB[i].username]

\* The position of the key in USER_DB, 0 when USER_DB has no such key.
KeyIndex(key) ==
    IF \E i \in DOMAIN USER_DB : USER_DB[i].username = key
    THEN CHOOSE i \in DOMAIN USER_DB : USER_DB[i].username = key
    ELSE 0

S_Missing_fields ==
    <<"M","i","s","s","i","n","g"," ","r","e","q","u","i","r","e","d"," ",
      "f","i","e","l","d","s">>

S_Username_exists ==
    <<"U","s","e","r","n","a","m","e"," ","a","l","r","e","a","d","y"," ",
      "e","x","i","s","t","s">>

S_Email_registered ==
    <<"E","m","a","i","l"," ","a","l","r","e","a","d","y"," ",
      "r","e","g","i","s","t","e","r","e","d">>

\* signup(payload), lines 595-634: the status, the detail of the error and
\* USER_DB as it leaves it
signup(payload) ==
    IF ~Truthy(payload.username) \/ ~Truthy(payload.password) \/ ~Truthy(payload.email)
    THEN [status |-> 400, detail |-> S_Missing_fields, db |-> USER_DB]
    ELSE IF KeyIndex(payload.username) # 0
    THEN [status |-> 400, detail |-> S_Username_exists, db |-> USER_DB]
    ELSE IF \E i \in DOMAIN USER_DB : USER_DB[i].email = payload.email
    THEN [status |-> 400, detail |-> S_Email_registered, db |-> USER_DB]
    ELSE [status |-> 200, detail |-> <<>>,
          db |-> Append(USER_DB, [username |-> payload.username,
                                  password |-> get_password_hash(payload.password),
                                  email |-> payload.email])]

\* update_profile(payload), lines 644-704
update_profile(payload) ==
    LET i == KeyIndex(payload.username)
        with_email == IF Truthy(payload.email)
                      THEN [USER_DB EXCEPT ![i].email = payload.email]
                      ELSE USER_DB
    IN  IF ~Truthy(payload.username) \/ Lower(payload.username) = S_guest
        THEN [status |-> 401, db |-> USER_DB]
        ELSE IF i = 0 THEN [status |-> 404, db |-> USER_DB]
        ELSE IF Truthy(payload.email)
                /\ \E j \in DOMAIN USER_DB : j # i /\ USER_DB[j].email = payload.email
        THEN [status |-> 400, db |-> USER_DB]
        ELSE IF ~Truthy(payload.new_password) THEN [status |-> 200, db |-> with_email]
        \* the email is stored before the password is looked at
        ELSE IF ~Truthy(payload.current_password) THEN [status |-> 400, db |-> with_email]
        ELSE IF ~verify_password(payload.current_password, USER_DB[i].password)
        THEN [status |-> 400, db |-> with_email]
        ELSE [status |-> 200,
              db |-> [with_email EXCEPT
                         ![i].password = get_password_hash(payload.new_password)]]

\* admin_reset_password(payload), lines 1924-1953
admin_reset_password(payload) ==
    LET i == KeyIndex(payload.username) IN
    IF ~Truthy(payload.username) \/ ~Truthy(payload.new_password)
    THEN [status |-> 400, db |-> USER_DB]
    ELSE IF i = 0 THEN [status |-> 404, db |-> USER_DB]
    ELSE [status |-> 200,
          db |-> [USER_DB EXCEPT ![i].password = get_password_hash(payload.new_password)]]

\* del store[username] when the key is there; absent is what the store
\* holds for a user without the key
Without(store, username, absent) ==
    [u \in DOMAIN store |-> IF u = username THEN absent ELSE store[u]]

\* delete_user(username), lines 707-741: the status and the stores as it
\* leaves them
delete_user(username) ==
    LET i == KeyIndex(username) IN
    IF i = 0
    THEN [status |-> 404, db |-> USER_DB, snippets |-> CODE_SNIPPETS,
          history |-> CODE_HISTORY, analytics |-> USER_ANALYTICS,
          settings |-> USER_SETTINGS, limits |-> API_RATE_LIMITS,
          sessions |-> ACTIVE_SESSIONS]
    ELSE [status |-> 200,
          db |-> SubSeq(USER_DB, 1, i - 1) \o SubSeq(USER_DB, i + 1, Len(USER_DB)),
          snippets |-> Without(CODE_SNIPPETS, username, NoList),
          history |-> Without(CODE_HISTORY, username, NoList),
          analytics |-> Without(USER_ANALYTICS, username, NoActivity),
          settings |-> Without(USER_SETTINGS, username, None),
          limits |-> Without(API_RATE_LIMITS, username, NoQuota),
          sessions |-> {t \in ACTIVE_SESSIONS : t.username # username}]

\* Bound: the users of USER_DB, the admin among them.
MaxUsers == 3

S_p == <<"p">>

S_q == <<"q">>

\* Signups as amy or Amy, with a password, one of them with a leading
\* blank, and one of two emails; a signup without an email.
SignupPayloads ==
    [username : {S_amy, S_Amy}, password : {S_p, <<" ","p">>, S_q},
     email : {S_mail, S_mail2}]
      \cup {[username |-> S_amy, password |-> S_p, email |-> None]}

\* Logins under a username or an email, in the letters of the key or in
\* others, with a password, or with nothing.
LoginPayloads ==
    [username : {S_admin, S_amy, S_Amy, S_mail2}, password : {admin_pwd, S_p, <<" ","p">>, S_q}]
      \cup {[username |-> None, password |-> None]}

ProfilePayloads ==
    [username : {S_admin, S_amy}, email : {None}, new_password : {None, S_q},
     current_password : {None, admin_pwd, S_p}]

ResetPayloads == [username : {S_admin, S_amy, S_sam}, new_password : {S_q}]

DeletedUsers == {S_admin, S_amy, S_Amy, S_sam}

\* What an account request leaves unchanged besides the stores it names.
AccountFrame ==
    UNCHANGED <<envVars, gatewayVars, threadVars, corpusVars, STUDENT_STATS,
                GUEST_USAGE, now, req, COMPANY_POLICIES, script, relayVars>>

\* POST /api/signup
Signup ==
    \E payload \in SignupPayloads :
        \E r \in {signup(payload)} :
            /\ Len(r.db) <= MaxUsers
            /\ USER_DB' = r.db
            /\ res' = [op |-> "signup", payload |-> payload, status |-> r.status]
            /\ AccountFrame
            /\ UNCHANGED <<MAINTENANCE_MODE, USER_SETTINGS, ACTIVE_SESSIONS, libraryVars>>

\* POST /api/login
Login ==
    \E payload \in LoginPayloads :
        \E r \in {login(payload)} :
            /\ res' = [op |-> "login", payload |-> payload, status |-> r.status,
                       detail |-> r.detail, token |-> r.token, username |-> r.username]
            /\ AccountFrame
            /\ UNCHANGED <<MAINTENANCE_MODE, USER_SETTINGS, USER_DB, ACTIVE_SESSIONS,
                           libraryVars>>

\* POST /api/profile/update
UpdateProfile ==
    \E payload \in ProfilePayloads :
        \E r \in {update_profile(payload)} :
            /\ USER_DB' = r.db
            /\ res' = [op |-> "update_profile", payload |-> payload, status |-> r.status]
            /\ AccountFrame
            /\ UNCHANGED <<MAINTENANCE_MODE, USER_SETTINGS, ACTIVE_SESSIONS, libraryVars>>

\* POST /api/admin/reset-password
AdminResetPassword ==
    \E payload \in ResetPayloads :
        \E r \in {admin_reset_password(payload)} :
            /\ USER_DB' = r.db
            /\ res' = [op |-> "admin_reset_password", payload |-> payload,
                       status |-> r.status]
            /\ AccountFrame
            /\ UNCHANGED <<MAINTENANCE_MODE, USER_SETTINGS, ACTIVE_SESSIONS, libraryVars>>

\* DELETE /api/profile/{username}
Delete(usernames) ==
    \E username \in usernames :
        \E r \in {delete_user(username)} :
            /\ USER_DB' = r.db
            /\ CODE_SNIPPETS' = r.snippets
            /\ CODE_HISTORY' = r.history
            /\ USER_ANALYTICS' = r.analytics
            /\ USER_SETTINGS' = r.settings
            /\ API_RATE_LIMITS' = r.limits
            /\ ACTIVE_SESSIONS' = r.sessions
            /\ res' = [op |-> "delete_user", username |-> username, status |-> r.status]
            /\ AccountFrame
            /\ UNCHANGED <<MAINTENANCE_MODE, WEBHOOKS>>

DeleteUser == Delete(DeletedUsers)

\* The admin switches the maintenance flag.
SwitchMaintenance ==
    \E payload \in [username : {S_admin}, enabled : BOOLEAN] :
        /\ MAINTENANCE_MODE' = set_maintenance_status(payload).enabled
        /\ res' = [op |-> "set_maintenance_status"]
        /\ AccountFrame
        /\ UNCHANGED <<USER_SETTINGS, USER_DB, ACTIVE_SESSIONS, libraryVars>>

\* main.py after import, started by a server (lifespan has hashed the
\* admin's password) or by a test client that does not run lifespan.
InitAccounts ==
    /\ impl = "main"
    /\ GEMINI_AVAILABLE = TRUE
    /\ SYSTEM_GEMINI_KEY = None
    /\ groq_client = TRUE
    /\ ENCRYPTION_AVAILABLE = TRUE
    /\ SECURITY_DEPS_AVAILABLE = TRUE
    /\ BCRYPT_AVAILABLE = TRUE
    /\ NoRequests
    /\ USER_DB \in {AdminOnly(get_password_hash(admin_pwd)), AdminOnly(admin_pwd)}
    /\ NoLibrary
    /\ script = NoScript
    /\ genai_api_key = None
    /\ gw = NoCall
    /\ NoThreads
    /\ EmptyCorpus

NextAccounts ==
    \/ Signup
    \/ Login
    \/ UpdateProfile
    \/ AdminResetPassword
    \/ DeleteUser
    \/ SwitchMaintenance

SpecAccounts == InitAccounts /\ [][NextAccounts]_vars

\* The password a record of USER_DB stands for: what was hashed, or the
\* text stored in plain.
CurrentPassword(record) ==
    IF StartsWith(record.password, S_2b)
    THEN SubSeq(record.password, Len(S_2b) + 1, Len(record.password))
    ELSE record.password

\* The supplied name is a record's username or email, letter case and
\* surrounding blanks aside.
NameMatches(name, record) ==
    Lower(Strip(GetOrEmpty(name))) \in {Lower(record.username), Lower(record.email)}

\* The supplied password is the record's current one, as it is or with the
\* surrounding blanks taken off.
PasswordMatches(password, record) ==
    \/ GetOrEmpty(password) = CurrentPassword(record)
    \/ Strip(GetOrEmpty(password)) = CurrentPassword(record)

\* C22: a login is answered with status 200 and a token if and only if the
\* supplied username or email and the supplied password are those of a user
\* of USER_DB, the password being the user's current one; every other login
\* is answered with status 401 and the detail "Invalid credentials", and
\* gets no token.
C22_LoginIffCredentialsMatch ==
    res.op = "login" =>
        IF \E i \in DOMAIN USER_DB :
              /\ NameMatches(res.payload.username, USER_DB[i])
              /\ PasswordMatches(res.payload.password, USER_DB[i])
        THEN res.status = 200 /\ res.token # NoToken
        ELSE res.status = 401 /\ res.detail = S_Invalid_credentials /\ res.token = NoToken

-----------------------------------------------------------------------------
(* verify_auth.py: a script that signs a test user up, logs in as that     *)
(* user and deletes the account, while other clients sign up and the admin *)
(* switches the maintenance flag.                                          *)

S_exists == <<"e","x","i","s","t","s">>

\* The test users of the script: a name, an email and a password, one of
\* the passwords with a leading blank.
TestUsers ==
    [username : {S_amy, S_Amy}, email : {S_mail}, password : {S_p, <<" ","p">>}]

\* The signups of the other clients.
OtherSignups == [username : {S_amy, S_Amy}, password : {S_q}, email : {S_mail2}]

\* 1. Signup, lines 17-32: the script posts its test user to /api/signup
\* and goes on to the login after a 200, or after a 400 that says "exists"
ScriptSignup ==
    \E test_user \in TestUsers :
        \E r \in {signup(test_user)} :
            /\ script.pc = "off"
            /\ Len(r.db) <= MaxUsers
            /\ USER_DB' = r.db
            /\ script' = [pc |-> IF r.status = 200
                                    \/ (r.status = 400 /\ Contains(r.detail, S_exists))
                                 THEN "login" ELSE "failed",
                          test_user |-> test_user, signup |-> r.status,
                          login |-> 0, token |-> NoToken]
            /\ res' = [op |-> "signup", payload |-> test_user, status |-> r.status]
            /\ UNCHANGED <<envVars, gatewayVars, threadVars, corpusVars, STUDENT_STATS,
                           GUEST_USAGE, now, req, COMPANY_POLICIES, MAINTENANCE_MODE,
                           USER_SETTINGS, ACTIVE_SESSIONS, libraryVars, relayVars>>

\* 2. Login, lines 34-52: the script posts the username and the password
\* of its test user to /api/login
ScriptLogin ==
    /\ script.pc = "login"
    /\ \E r \in {login([username |-> script.test_user.username,
                        password |-> script.test_user.password])} :
           /\ script' = [script EXCEPT !.pc = IF r.status = 200 THEN "delete" ELSE "failed",
                                       !.login = r.status, !.token = r.token]
           /\ res' = [op |-> "login", payload |-> script.test_user, status |-> r.status,
                      detail |-> r.detail, token |-> r.token, username |-> r.username]
           /\ UNCHANGED <<envVars, gatewayVars, threadVars, corpusVars, STUDENT_STATS,
                          GUEST_USAGE, now, req, COMPANY_POLICIES, MAINTENANCE_MODE,
                          USER_SETTINGS, USER_DB, ACTIVE_SESSIONS, libraryVars, relayVars>>

\* 3. Cleanup, lines 54-63: the script deletes its test user
ScriptCleanup ==
    /\ script.pc = "delete"
    /\ \E r \in {delete_user(script.test_user.username)} :
           /\ script' = [script EXCEPT !.pc = "done"]
           /\ USER_DB' = r.db
           /\ CODE_SNIPPETS' = r.snippets
           /\ CODE_HISTORY' = r.history
           /\ USER_ANALYTICS' = r.analytics
           /\ USER_SETTINGS' = r.settings
           /\ API_RATE_LIMITS' = r.limits
           /\ ACTIVE_SESSIONS' = r.sessions
           /\ res' = [op |-> "delete_user", username |-> script.test_user.username,
                      status |-> r.status]
           /\ UNCHANGED <<envVars, gatewayVars, threadVars, corpusVars, STUDENT_STATS,
                          GUEST_USAGE, now, req, COMPANY_POLICIES, MAINTENANCE_MODE,
                          WEBHOOKS, relayVars>>

\* The script is run again.
ScriptRestart ==
    /\ script.pc \in {"done", "failed"}
    /\ script' = NoScript
    /\ UNCHANGED <<envVars, gatewayVars, threadVars, corpusVars, handlerVars,
                   USER_DB, ACTIVE_SESSIONS, libraryVars, relayVars>>

\* POST /api/signup by another client, under a name that is not in use by
\* the script's test user
OtherSignup ==
    \E payload \in OtherSignups :
        \E r \in {signup(payload)} :
            /\ payload.username # script.test_user.username
            /\ Len(r.db) <= MaxUsers
            /\ USER_DB' = r.db
            /\ res' = [op |-> "signup", payload |-> payload, status |-> r.status]
            /\ AccountFrame
            /\ UNCHANGED <<MAINTENANCE_MODE, USER_SETTINGS, ACTIVE_SESSIONS, libraryVars>>

NextVerifyAuth ==
    \/ ScriptSignup
    \/ ScriptLogin
    \/ ScriptCleanup
    \/ ScriptRestart
    \/ OtherSignup
    \/ SwitchMaintenance

SpecVerifyAuth == InitAccounts /\ [][NextVerifyAuth]_vars

\* C23: when the script's signup of its test user has succeeded, its login
\* with the username and the password of that user succeeds and returns a
\* token, for every test user and whatever users the other clients have
\* signed up; nobody deletes the account or changes its password between
\* the two requests.
C23_LoginAfterSignup ==
    (script.pc \in {"delete", "failed", "done"} /\ script.signup = 200) =>
        /\ script.login = 200
        /\ script.token # NoToken

-----------------------------------------------------------------------------
(* The users' data: snippets, versions, activity, quota and webhooks, and  *)
(* the deletion of an account.  Time stamps are left out of the records.   *)

S_Untitled == <<"U","n","t","i","t","l","e","d">>

S_python == <<"p","y","t","h","o","n">>

S_review == <<"r","e","v","i","e","w">>

\* payload.get(key, default)
GetOr(value, default) == IF value = None THEN default ELSE value

\* The list of a user in a store of lists, with an element added.
Added(store, user, element) ==
    [store EXCEPT ![user] = [has |-> TRUE, items |-> Append(@.items, element)]]

\* save_snippet(payload), lines 1101-1126: the status, the id returned and
\* CODE_SNIPPETS as it leaves it; the id is len(CODE_SNIPPETS[user])
save_snippet(payload) ==
    LET user == GetOr(payload.user, S_default)
        code == GetOr(payload.code, <<>>)
        list == CODE_SNIPPETS[user].items
        snippet == [id |-> Len(list), title |-> GetOr(payload.title, S_Untitled),
                    code |-> code, language |-> GetOr(payload.language, S_python)]
    IN  IF Lower(user) = S_guest
        THEN [status |-> 401, snippet_id |-> -1, snippets |-> CODE_SNIPPETS]
        ELSE IF ~Truthy(code)
        THEN [status |-> 400, snippet_id |-> -1, snippets |-> CODE_SNIPPETS]
        ELSE [status |-> 200, snippet_id |-> snippet.id,
              snippets |-> Added(CODE_SNIPPETS, user, snippet)]

\* list.pop(i): the list without its element at index i, counted from 0
Pop(list, i) == SubSeq(list, 1, i) \o SubSeq(list, i + 2, Len(list))

\* delete_snippet(user, snippet_id), lines 1137-1142
delete_snippet(user, snippet_id) ==
    IF CODE_SNIPPETS[user].has /\ 0 <= snippet_id
         /\ snippet_id < Len(CODE_SNIPPETS[user].items)
    THEN [status |-> 200,
          snippets |-> [CODE_SNIPPETS EXCEPT ![user].items = Pop(@, snippet_id)]]
    ELSE [status |-> 404, snippets |-> CODE_SNIPPETS]

\* save_to_history(payload), lines 1146-1166
save_to_history(payload) ==
    LET user == GetOr(payload.user, S_default)
        list == CODE_HISTORY[user].items
        version == [version |-> Len(list) + 1, code |-> GetOr(payload.code, <<>>),
                    action |-> GetOr(payload.action, S_review)]
    IN  IF Lower(user) = S_guest THEN [status |-> 401, history |-> CODE_HISTORY]
        ELSE [status |-> 200, history |-> Added(CODE_HISTORY, user, version)]

S_generate == <<"g","e","n","e","r","a","t","e">>

\* track_activity(payload), lines 1178-1199; languages holds the count of
\* the one language of the payloads
track_activity(payload) ==
    LET user == GetOr(payload.user, S_default)
        action == GetOr(payload.action, S_review)
        analytics == USER_ANALYTICS[user]
    IN  IF Lower(user) = S_guest THEN USER_ANALYTICS
        ELSE [USER_ANALYTICS EXCEPT ![user] =
                 [has |-> TRUE,
                  reviews |-> analytics.reviews + (IF action = S_review THEN 1 ELSE 0),
                  generations |-> analytics.generations
                                    + (IF action = S_generate THEN 1 ELSE 0),
                  languages |-> analytics.languages + 1]]

\* increment_quota(payload), lines 1450-1465
increment_quota(payload) ==
    LET user == GetOr(payload.user, S_default)
        quota == IF API_RATE_LIMITS[user].has THEN API_RATE_LIMITS[user]
                 ELSE [has |-> TRUE, requests_today |-> 0, requests_month |-> 0,
                       limit_daily |-> 1000, limit_monthly |-> 10000]
    IN  [API_RATE_LIMITS EXCEPT ![user] =
            [quota EXCEPT !.requests_today = @ + 1, !.requests_month = @ + 1]]

\* register_webhook(payload), lines 1341-1363; the id is written as the
\* text that is hashed, user and url, and not as the eight digits of its md5
register_webhook(payload) ==
    LET user == GetOr(payload.user, S_default)
        webhook == [id |-> user \o payload.webhook_url, url |-> payload.webhook_url,
                    active |-> TRUE]
    IN  IF ~Truthy(payload.webhook_url) THEN [status |-> 400, webhooks |-> WEBHOOKS]
        ELSE [status |-> 200, webhooks |-> Added(WEBHOOKS, user, webhook)]

\* Bound: the entries of one user's list or counter in a store.
MaxEntries == 1

\* The user whose data is stored: amy, who may have an account.
LibraryUsers == {S_amy}

\* What a request to the stores of this section leaves unchanged besides
\* those stores.
LibraryFrame ==
    UNCHANGED <<envVars, gatewayVars, threadVars, corpusVars, handlerVars,
                accountVars, relayVars>>

\* POST /api/snippets/save
Save(payloads, max) ==
    \E payload \in payloads :
        \E r \in {save_snippet(payload)} :
            /\ \A u \in Users : Len(r.snippets[u].items) <= max
            /\ CODE_SNIPPETS' = r.snippets
            /\ res' = [op |-> "save_snippet", user |-> GetOr(payload.user, S_default),
                       status |-> r.status, snippet_id |-> r.snippet_id]
            /\ UNCHANGED <<envVars, gatewayVars, threadVars, corpusVars, USER_SETTINGS,
                           STUDENT_STATS, MAINTENANCE_MODE, GUEST_USAGE, now, req,
                           COMPANY_POLICIES, accountVars, relayVars, CODE_HISTORY, USER_ANALYTICS,
                           API_RATE_LIMITS, WEBHOOKS>>

\* Snippets are saved by amy and without the key user.
SaveSnippet ==
    Save([user : {None, S_amy}, title : {None}, code : {<<"a">>}, language : {None}],
         MaxEntries)

\* POST /api/history/save
SaveToHistory ==
    \E payload \in [user : LibraryUsers, code : {<<"a">>}, action : {None}] :
        \E r \in {save_to_history(payload)} :
            /\ \A u \in Users : Len(r.history[u].items) <= MaxEntries
            /\ CODE_HISTORY' = r.history
            /\ res' = [op |-> "save_to_history", status |-> r.status]
            /\ UNCHANGED <<envVars, gatewayVars, threadVars, corpusVars, USER_SETTINGS,
                           STUDENT_STATS, MAINTENANCE_MODE, GUEST_USAGE, now, req,
                           COMPANY_POLICIES, accountVars, relayVars, CODE_SNIPPETS, USER_ANALYTICS,
                           API_RATE_LIMITS, WEBHOOKS>>

\* POST /api/analytics/track
TrackActivity ==
    \E payload \in [user : LibraryUsers, action : {None}, language : {None}] :
        \E r \in {track_activity(payload)} :
            /\ \A u \in Users : r[u].languages <= MaxEntries
            /\ USER_ANALYTICS' = r
            /\ res' = [op |-> "track_activity", status |-> 200]
            /\ UNCHANGED <<envVars, gatewayVars, threadVars, corpusVars, USER_SETTINGS,
                           STUDENT_STATS, MAINTENANCE_MODE, GUEST_USAGE, now, req,
                           COMPANY_POLICIES, accountVars, relayVars, CODE_SNIPPETS, CODE_HISTORY,
                           API_RATE_LIMITS, WEBHOOKS>>

\* POST /api/quota/increment
IncrementQuota ==
    \E payload \in [user : LibraryUsers] :
        \E r \in {increment_quota(payload)} :
            /\ \A u \in Users : r[u].requests_today <= MaxEntries
            /\ API_RATE_LIMITS' = r
            /\ res' = [op |-> "increment_quota", status |-> 200]
            /\ UNCHANGED <<envVars, gatewayVars, threadVars, corpusVars, USER_SETTINGS,
                           STUDENT_STATS, MAINTENANCE_MODE, GUEST_USAGE, now, req,
                           COMPANY_POLICIES, accountVars, relayVars, CODE_SNIPPETS, CODE_HISTORY,
                           USER_ANALYTICS, WEBHOOKS>>

\* POST /api/webhooks/register
RegisterWebhook ==
    \E payload \in [user : LibraryUsers, webhook_url : {<<"h">>}] :
        \E r \in {register_webhook(payload)} :
            /\ \A u \in Users : Len(r.webhooks[u].items) <= MaxEntries
            /\ WEBHOOKS' = r.webhooks
            /\ res' = [op |-> "register_webhook", status |-> r.status]
            /\ UNCHANGED <<envVars, gatewayVars, threadVars, corpusVars, USER_SETTINGS,
                           STUDENT_STATS, MAINTENANCE_MODE, GUEST_USAGE, now, req,
                           COMPANY_POLICIES, accountVars, relayVars, CODE_SNIPPETS, CODE_HISTORY,
                           USER_ANALYTICS, API_RATE_LIMITS>>

\* POST /api/settings/update: amy stores a Gemini key
StoreKey ==
    \E payload \in [user : {None}, username : {S_amy}, gemini_key : {Key1}] :
        /\ USER_SETTINGS' = update_settings(payload)
        /\ res' = [op |-> "update_settings"]
        /\ UNCHANGED <<envVars, gatewayVars, threadVars, corpusVars, STUDENT_STATS,
                       MAINTENANCE_MODE, GUEST_USAGE, now, req, COMPANY_POLICIES,
                       storeVars>>

\* POST /api/signup as amy
SignupAmy ==
    \E payload \in [username : {S_amy}, password : {S_p}, email : {S_mail}] :
        \E r \in {signup(payload)} :
            /\ USER_DB' = r.db
            /\ res' = [op |-> "signup", payload |-> payload, status |-> r.status]
            /\ AccountFrame
            /\ UNCHANGED <<MAINTENANCE_MODE, USER_SETTINGS, ACTIVE_SESSIONS, libraryVars>>

\* DELETE /api/profile/{username} for amy, the admin and a name without an
\* account
DeleteAccount == Delete({S_amy, S_admin, S_sam})

NextDeletion ==
    \/ SignupAmy
    \/ DeleteAccount
    \/ SaveSnippet
    \/ SaveToHistory
    \/ TrackActivity
    \/ IncrementQuota
    \/ RegisterWebhook
    \/ StoreKey

SpecDeletion == InitAccounts /\ [][NextDeletion]_vars

\* The stores that hold data by user.
UserStores ==
    <<CODE_SNIPPETS, CODE_HISTORY, USER_ANALYTICS, API_RATE_LIMITS, WEBHOOKS>>

\* The passwords tried after a deletion.
TriedPasswords == {admin_pwd, S_p}

\* C24: a deletion of a username that has an account is answered 200, and
\* after it no store holds anything of that user - no record in USER_DB, no
\* snippets, versions, activity, settings, quota, webhooks or sessions - and
\* no login under the name succeeds; a deletion of a username without an
\* account is answered 404 and changes no store.
C24_DeletionLeavesNothing ==
    [][\A u \in DeletedUsers :
          (res'.op = "delete_user" /\ res'.username = u) =>
          IF KeyIndex(u) # 0
          THEN /\ res'.status = 200
               /\ \A i \in DOMAIN USER_DB' : USER_DB'[i].username # u
               /\ \A k \in DOMAIN UserStores : ~UserStores[k]'[u].has
               /\ USER_SETTINGS'[u] = None
               /\ \A t \in ACTIVE_SESSIONS' : t.username # u
               /\ \A p \in TriedPasswords :
                     login([username |-> u, password |-> p])'.status # 200
          ELSE /\ res'.status = 404
               /\ UNCHANGED <<USER_DB, UserStores, USER_SETTINGS, ACTIVE_SESSIONS>>]_vars

-----------------------------------------------------------------------------
(* The AI handlers under the maintenance flag: code generation, review and *)
(* rewrite, test generation, documentation, security scan and refactoring  *)
(* suggestions. Each of them runs behind the rate limiter of its route;    *)
(* the requests here are the ones the limiter lets through.                *)

\* A request of the four code tools that was rejected before the gateway
\* was called.
ToolRejected(status) == [status |-> status, calls |-> <<>>, text |-> None]

\* The body the four code tools share: code = payload.get("code", ""),
\* user = payload.get("user", "guest"), check_maintenance(user), 400 for
\* empty code, then one call of the gateway with its default model; three
\* of the four pass the text through sanitize_html.
code_tool(payload, outcome, sanitized) ==
    LET code == GetOr(payload.code, <<>>)
        user == GetOr(payload.user, S_guest)
        call == Call(S_llama_versatile, None, outcome)
    IN  IF check_maintenance(user) THEN ToolRejected(503)
        ELSE IF ~Truthy(code) THEN ToolRejected(400)
        ELSE [status |-> 200, calls |-> <<Kept(call)>>,
              text |-> IF sanitized THEN sanitize_html(call.result) ELSE call.result]

\* generate_tests with the check of the code before the check of the
\* maintenance flag
generate_tests_code_first(payload, outcome) ==
    IF ~Truthy(GetOr(payload.code, <<>>)) THEN ToolRejected(400)
    ELSE code_tool(payload, outcome, FALSE)

\* generate_tests(request, payload), lines 1012-1031
generate_tests(payload, outcome) == code_tool(payload, outcome, FALSE)

\* generate_docs(request, payload), lines 1033-1053
generate_docs(payload, outcome) == code_tool(payload, outcome, TRUE)

\* security_scan(request, payload), lines 1055-1075
security_scan(payload, outcome) == code_tool(payload, outcome, TRUE)

\* refactor_suggestions(request, payload), lines 1077-1098
refactor_suggestions(payload, outcome) == code_tool(payload, outcome, TRUE)

\* The payloads of the code tools: with and without code, under no name,
\* under the admin's and under amy's.
ToolPayloads ==
    [code : {None, <<"a">>}, language : {None}, user : {None, S_admin, S_amy}]

\* What a request of a code tool leaves behind: nothing but the call of the
\* gateway and the response.
Tool(op, payload, r) ==
    /\ req' = [op |-> op, status |-> r.status, model_key |-> <<>>, calls |-> r.calls]
    /\ res' = [op |-> op, payload |-> payload, status |-> r.status,
               u_name |-> GetOr(payload.user, S_guest), called |-> r.calls # <<>>,
               returned |-> r.text]
    /\ genai_api_key' = ConfiguredAfter(r.calls, genai_api_key)
    /\ UNCHANGED <<envVars, storeVars, gw, threadVars, corpusVars, USER_SETTINGS,
                   STUDENT_STATS, MAINTENANCE_MODE, GUEST_USAGE, now,
                   COMPANY_POLICIES>>

\* POST /api/generate-tests
GenerateTests ==
    \E payload \in ToolPayloads, outcome \in GateOutcomes :
        Tool("generate_tests", payload, generate_tests(payload, outcome))

\* POST /api/generate-docs
GenerateDocs ==
    \E payload \in ToolPayloads, outcome \in GateOutcomes :
        Tool("generate_docs", payload, generate_docs(payload, outcome))

\* POST /api/security-scan
SecurityScan ==
    \E payload \in ToolPayloads, outcome \in GateOutcomes :
        Tool("security_scan", payload, security_scan(payload, outcome))

\* POST /api/refactor-suggestions
RefactorSuggestions ==
    \E payload \in ToolPayloads, outcome \in GateOutcomes :
        Tool("refactor_suggestions", payload, refactor_suggestions(payload, outcome))

\* Review and rewrite payloads of a student and of a developer, under the
\* names guest, admin and sam.
MaintenancePayloadsOfReview ==
    {[BasePayload EXCEPT !.username = b, !.user_type = t] :
        b \in {S_guest, S_admin, S_sam}, t \in {None, S_student}}

\* POST /api/review, POST /api/rewrite, with the payloads of this section
MaintenanceReview == Review(MaintenancePayloadsOfReview, GateOutcomes, TRUE)

\* Generation payloads under no name, under the admin's and under amy's.
MaintenancePayloadsOfGenerate ==
    [prompt : {<<"p">>}, language : {None}, user_type : {None}, role : {None},
     model : {None, S_gemini_pro}, username : {None, S_admin, S_amy}]

\* A generation request from one of the IPs with one of the payloads,
\* everything generate_code changes, and the request kept in res.
Generate(ips, payloads, outcomes) ==
    \E payload \in payloads, ip \in ips, outcome \in outcomes :
        \E r \in {generate_code(payload, ip, outcome)} :
            /\ req' = [op |-> "generate_code", status |-> r.status,
                       model_key |-> r.model_key, calls |-> r.calls]
            /\ genai_api_key' = ConfiguredAfter(r.calls, genai_api_key)
            /\ res' = [op |-> "generate_code", payload |-> payload, ip |-> ip,
                       status |-> r.status,
                       u_name |-> GetOr(payload.username, S_guest),
                       called |-> r.calls # <<>>]
            /\ GUEST_USAGE' = r.usage
            /\ UNCHANGED <<envVars, storeVars, gw, threadVars, corpusVars, USER_SETTINGS,
                           STUDENT_STATS, MAINTENANCE_MODE, now, COMPANY_POLICIES>>

\* POST /api/generate, with the payloads of this section
MaintenanceGenerate == Generate(IPs, MaintenancePayloadsOfGenerate, GateOutcomes)

NextMaintenance ==
    \/ MaintenanceReview
    \/ MaintenanceGenerate
    \/ GenerateTests
    \/ GenerateDocs
    \/ SecurityScan
    \/ RefactorSuggestions
    \/ SetMaintenanceStatus

\* main.py serving its AI handlers while the admin switches the maintenance
\* flag.
SpecMaintenance == InitReview /\ [][NextMaintenance]_vars

\* The operations behind the maintenance check.
GatedOps ==
    {"generate_code", "process_code", "generate_tests", "generate_docs",
     "security_scan", "refactor_suggestions"}

\* The state the AI handlers share: the corpus, the review counts, the
\* guest usage and the key the Gemini library is configured with.
SharedState == <<heap, CODE_DATABASE, sim, STUDENT_STATS, GUEST_USAGE, genai_api_key>>

-----------------------------------------------------------------------------
(* The guest limit: guests' generation, review and rewrite requests while  *)
(* the clock advances.                                                     *)

\* Bound: the days the clock runs.
MaxDays == 2

\* The times requests arrive at: the start of a day and one second later.
Times == {d * Day + s : d \in 0..MaxDays, s \in {0, 1}}

\* time.time() between two requests: the clock advances.
Tick ==
    /\ \E t \in Times : t > now /\ now' = t
    /\ UNCHANGED <<envVars, storeVars, gatewayVars, threadVars, corpusVars,
                   USER_SETTINGS, STUDENT_STATS, MAINTENANCE_MODE, GUEST_USAGE,
                   req, res, COMPANY_POLICIES>>

\* The IPs guests' requests come from.
GuestIPs == IPs \cup {<<"1","0",".","0",".","0",".","2">>}

\* Review and rewrite payloads under the names Guest and amy.
GuestPayloadsOfReview ==
    {[BasePayload EXCEPT !.username = b] : b \in {S_Guest, S_amy}}

\* Generation payloads under the name guest and under no name; without a
\* name the request is a guest's.
GuestPayloadsOfGenerate ==
    [prompt : {<<"p">>}, language : {None}, user_type : {None}, role : {None},
     model : {None}, username : {None, S_guest}]

\* POST /api/review, POST /api/rewrite, with the payloads of this section
GuestReview == ReviewFrom(GuestIPs, GuestPayloadsOfReview, GateOutcomes, TRUE)

\* POST /api/generate, with the payloads of this section
GuestGenerate == Generate(GuestIPs, GuestPayloadsOfGenerate, GateOutcomes)

\* The process after import, no IP with a record in GUEST_USAGE.
InitGuests ==
    /\ impl = "main"
    /\ GEMINI_AVAILABLE = TRUE
    /\ SYSTEM_GEMINI_KEY = None
    /\ groq_client = TRUE
    /\ ENCRYPTION_AVAILABLE = TRUE
    /\ SECURITY_DEPS_AVAILABLE = TRUE
    /\ BCRYPT_AVAILABLE = TRUE
    /\ USER_SETTINGS = [u \in Users |-> None]
    /\ STUDENT_STATS = [u \in Users |-> 0]
    /\ MAINTENANCE_MODE = FALSE
    /\ GUEST_USAGE = [ip \in GuestIPs |-> NoUsage]
    /\ now = 0
    /\ req = NoRequest
    /\ COMPANY_POLICIES = <<>>
    /\ res = NoResponse
    /\ NoStores
    /\ genai_api_key = None
    /\ gw = NoCall
    /\ NoThreads
    /\ EmptyCorpus

NextGuests == GuestReview \/ GuestGenerate \/ Tick

\* main.py serving guests and signed-up users over some days, the
\* maintenance flag off.
SpecGuests == InitGuests /\ [][NextGuests]_vars

\* The step is a generation, review or rewrite request of a guest from ip,
\* not one of the clock.
GuestRequest(ip) ==
    /\ now' = now
    /\ res'.op \in {"generate_code", "process_code"}
    /\ res'.ip = ip
    /\ Lower(res'.u_name) = S_guest

\* The usage window of ip is over: the IP has no record, or more than a day
\* has passed since the window started, a day before reset_time.
WindowOver(ip) ==
    \/ GUEST_USAGE[ip] = NoUsage
    \/ now - (GUEST_USAGE[ip].reset_time - Day) > Day

------------------------------------------------------------------------

-----------------------------------------------------------------------------
(* Students' reviews: the review counts and the similarity corpus.         *)

S_Student == <<"S","t","u","d","e","n","t">>

\* Review and rewrite payloads of students and of others: without code, with
\* code and with a number for code, the user type under the key user_type,
\* in small letters or with a capital, or under the key role, the requester
\* sam or nobody.
StudentPayloads ==
    {p \in {[BasePayload EXCEPT !.code = c, !.user_type = t, !.role = r,
                                !.student_name = a] :
                c \in {None, <<"a">>, JsonNumber}, t \in {None, S_student, S_Student},
                r \in {None, S_student}, a \in {None, S_sam}} :
        /\ p.role # None => p.user_type = None
        /\ p.code = JsonNumber => p.student_name = None}

\* POST /api/review, POST /api/rewrite, with the payloads of this section
StudentReview == Review(StudentPayloads, GateOutcomes, TRUE)

NextStudents == StudentReview \/ SetMaintenanceStatus \/ ResetPlagiarism

\* main.py serving the reviews of students and others, the admin switching
\* the maintenance flag and emptying the corpus.
SpecStudents == InitReview /\ [][NextStudents]_vars

\* The step is a review or rewrite request that neither the maintenance
\* check nor the guest limit has rejected; it is not a reset of the corpus:
\* only reset_plagiarism binds the name CODE_DATABASE to another list.
ReviewPastChecks ==
    /\ CODE_DATABASE' = CODE_DATABASE
    /\ res'.op = "process_code"
    /\ res'.status \notin {403, 503}

\* C27: a review or rewrite request whose user type is student leaves the
\* corpus as it was with the code of the request appended once and raises
\* the count of its requester id in STUDENT_STATS by exactly 1, the counts
\* of all others unchanged; a request of any other user type leaves
\* STUDENT_STATS and the corpus unchanged and reports the plagiarism label
\* "N/A".
C27_StudentEffects ==
    [][ReviewPastChecks =>
          IF res'.u_type = S_student
          THEN /\ heap' = [heap EXCEPT ![CODE_DATABASE] = Append(@, res'.code)]
               /\ STUDENT_STATS' =
                      [STUDENT_STATS EXCEPT ![res'.u_name] = @ + 1]
               /\ res'.body.student_stats = STUDENT_STATS[res'.u_name] + 1
          ELSE /\ STUDENT_STATS' = STUDENT_STATS
               /\ heap' = heap
               /\ res'.body.plagiarism = S_NA]_vars

-----------------------------------------------------------------------------
(* Logins after a change of password.                                      *)

\* The users whose passwords are changed and the passwords tried afterwards.
ChangedUsers == {S_admin, S_amy}

OldAndNewPasswords == {admin_pwd, S_p, S_q}

\* The step is a profile update or an admin's reset that has stored a new
\* password for the user.
PasswordChanged(u) ==
    /\ res'.op \in {"update_profile", "admin_reset_password"}
    /\ res'.status = 200
    /\ res'.payload.username = u
    /\ Truthy(res'.payload.new_password)

\* C28: once a profile update or an admin's reset has stored a new password
\* for a user, the admin included, a login of that user with any other
\* password, the old one among them, is answered 401, and a login with the
\* new password is answered 200 with a token (503 for a user who is not the
\* admin while the maintenance flag is on).
C28_OldPasswordRejected ==
    [][\A u \in ChangedUsers, p \in OldAndNewPasswords :
          PasswordChanged(u) =>
              IF p = res'.payload.new_password
              THEN (login([username |-> u, password |-> p]))'.status =
                       IF MAINTENANCE_MODE /\ u # S_admin THEN 503 ELSE 200
              ELSE (login([username |-> u, password |-> p]))'.status = 401]_vars

-----------------------------------------------------------------------------
(* The snippet library: snippets saved and deleted.                        *)

\* Bound: the snippets one user has stored.
MaxSnippets == 3

\* The users of the library: amy, and default for a payload without the key
\* user.
SnippetUsers == {S_amy, S_default}

\* POST /api/snippets/save: snippets of two codes, saved by amy, by a guest
\* and without the key user, one of them without code. The time of saving
\* is not kept: snippets differ by id and code.
SaveSnippets ==
    Save([user : {None, S_amy}, title : {None}, code : {<<"a">>, <<"b">>},
          language : {None}]
           \cup {[user |-> S_guest, title |-> None, code |-> <<"a">>, language |-> None],
                 [user |-> S_amy, title |-> None, code |-> None, language |-> None]},
         MaxSnippets)

\* DELETE /api/snippets/{user}/{snippet_id}
DeleteSnippet ==
    \E user \in SnippetUsers, snippet_id \in 0..MaxSnippets :
        \E r \in {delete_snippet(user, snippet_id)} :
            /\ CODE_SNIPPETS' = r.snippets
            /\ res' = [op |-> "delete_snippet", user |-> user, status |-> r.status,
                       snippet_id |-> snippet_id]
            /\ UNCHANGED <<envVars, gatewayVars, threadVars, corpusVars, USER_SETTINGS,
                           STUDENT_STATS, MAINTENANCE_MODE, GUEST_USAGE, now, req,
                           COMPANY_POLICIES, accountVars, relayVars, CODE_HISTORY, USER_ANALYTICS,
                           API_RATE_LIMITS, WEBHOOKS>>

NextSnippets == SaveSnippets \/ DeleteSnippet

\* main.py serving the snippet library.
SpecSnippets == InitReview /\ [][NextSnippets]_vars

\* The snippets of the list that do not have the id.
WithoutId(list, id) ==
    LET Other(snippet) == snippet.id # id IN SelectSeq(list, Other)

\* C29: the snippets stored for a user always have pairwise distinct ids,
\* and a deletion with an id removes the snippet that was saved under that
\* id, all others staying as they are in their order, and is answered 404,
\* nothing removed, when the user has no snippet with that id.
C29_SnippetIds ==
    /\ [](\A u \in SnippetUsers :
            \A i, j \in DOMAIN CODE_SNIPPETS[u].items :
                CODE_SNIPPETS[u].items[i].id = CODE_SNIPPETS[u].items[j].id => i = j)
    /\ [][res'.op = "delete_snippet" =>
            \A u \in SnippetUsers :
                IF u = res'.user
                    /\ \E i \in DOMAIN CODE_SNIPPETS[u].items :
                           CODE_SNIPPETS[u].items[i].id = res'.snippet_id
                THEN /\ res'.status = 200
                     /\ CODE_SNIPPETS'[u].items =
                            WithoutId(CODE_SNIPPETS[u].items, res'.snippet_id)
                ELSE /\ u = res'.user => res'.status = 404
                     /\ CODE_SNIPPETS'[u] = CODE_SNIPPETS[u]]_vars

-----------------------------------------------------------------------------
(* The collaboration relay: the websocket_endpoint tasks of the clients,   *)
(* interleaved at their awaits, and the peers that close their connections.*)

\* What is left unchanged by the relay.
RelayFrame ==
    UNCHANGED <<envVars, gatewayVars, threadVars, corpusVars, handlerVars,
                accountVars, libraryVars>>

\* The websocket is in manager.active_connections.
Listed(list, w) == \E i \in DOMAIN list : list[i] = w

\* list.remove(w): the list without the first w; the websocket is in the
\* list whenever disconnect is called.
Remove(list, w) ==
    LET i == CHOOSE k \in DOMAIN list :
                 list[k] = w /\ \A j \in 1..(k - 1) : list[j] # w
    IN  SubSeq(list, 1, i - 1) \o SubSeq(list, i + 1, Len(list))

\* A client opens a websocket: its websocket_endpoint task starts and awaits
\* websocket.accept() in manager.connect.
Connect ==
    \E w \in Sockets :
        /\ sockets[w].pc = "none"
        /\ sockets' = [sockets EXCEPT ![w] = [pc |-> "accept", open |-> TRUE, idx |-> 0]]
        /\ UNCHANGED active_connections
        /\ RelayFrame

\* manager.connect after the accept: the websocket is appended and the task
\* awaits receive_text.
Register ==
    \E w \in Sockets :
        /\ sockets[w].pc = "accept"
        /\ active_connections' = Append(active_connections, w)
        /\ sockets' = [sockets EXCEPT ![w].pc = "receive"]
        /\ RelayFrame

\* The peer of a websocket closes its connection or loses it.
PeerCloses ==
    \E w \in Sockets :
        /\ sockets[w].pc \in {"accept", "receive", "broadcast"}
        /\ sockets[w].open
        /\ sockets' = [sockets EXCEPT ![w].open = FALSE]
        /\ UNCHANGED active_connections
        /\ RelayFrame

\* receive_text returns a message: the task enters manager.broadcast and its
\* loop over active_connections.
Receive ==
    \E w \in Sockets :
        /\ sockets[w].pc = "receive"
        /\ sockets[w].open
        /\ sockets' = [sockets EXCEPT ![w] = [@ EXCEPT !.pc = "broadcast", !.idx = 0]]
        /\ UNCHANGED active_connections
        /\ RelayFrame

\* receive_text raises WebSocketDisconnect: manager.disconnect removes the
\* websocket and the task ends.
ReceiveDisconnect ==
    \E w \in Sockets :
        /\ sockets[w].pc = "receive"
        /\ ~sockets[w].open
        /\ active_connections' = Remove(active_connections, w)
        /\ sockets' = [sockets EXCEPT ![w].pc = "closed"]
        /\ RelayFrame

\* The connection the loop of the task's broadcast is at: the list iterator
\* reads the list as it is now.
Target(w) == active_connections[sockets[w].idx + 1]

\* await connection.send_text(message) returns: the connection's task is
\* still running, its peer open or closed without the server having
\* noticed.
Send ==
    \E w \in Sockets :
        /\ sockets[w].pc = "broadcast"
        /\ sockets[w].idx < Len(active_connections)
        /\ sockets[Target(w)].pc \in {"receive", "broadcast"}
        /\ sockets' = [sockets EXCEPT ![w].idx = @ + 1]
        /\ UNCHANGED active_connections
        /\ RelayFrame

\* The exceptions send_text raises for a connection that is closed, by the
\* version of the framework: WebSocketDisconnect or another one.
SendErrors == {"WebSocketDisconnect", "RuntimeError"}

\* await connection.send_text(message) raises: the exception leaves the
\* loop and broadcast. The except clause of the sender's websocket_endpoint
\* catches WebSocketDisconnect and disconnects the sender's own websocket;
\* another exception ends the task without it. The server closes the
\* sender's connection when its task has ended.
SendFails ==
    \E w \in Sockets, error \in SendErrors :
        /\ sockets[w].pc = "broadcast"
        /\ sockets[w].idx < Len(active_connections)
        /\ ~sockets[Target(w)].open
        /\ IF error = "WebSocketDisconnect"
           THEN /\ active_connections' = Remove(active_connections, w)
                /\ sockets' = [sockets EXCEPT ![w] = [@ EXCEPT !.pc = "closed"]]
           ELSE /\ UNCHANGED active_connections
                /\ sockets' = [sockets EXCEPT ![w] = [@ EXCEPT !.pc = "failed"]]
        /\ RelayFrame

\* The loop of broadcast is over: the task awaits receive_text again.
BroadcastDone ==
    \E w \in Sockets :
        /\ sockets[w].pc = "broadcast"
        /\ sockets[w].idx >= Len(active_connections)
        /\ sockets' = [sockets EXCEPT ![w].pc = "receive"]
        /\ UNCHANGED active_connections
        /\ RelayFrame

NextRelay ==
    \/ Connect
    \/ Register
    \/ PeerCloses
    \/ Receive
    \/ ReceiveDisconnect
    \/ Send
    \/ SendFails
    \/ BroadcastDone

\* main.py relaying the messages of the clients of /ws/collab.
SpecRelay == InitReview /\ [][NextRelay]_vars

\* C30: a client whose peer is still connected is never removed from the
\* list of active connections; a client whose task is serving it is in the
\* list; and a client whose task has ended, its connection gone, is not in
\* the list any more - whatever happens to the sends of a broadcast.
C30_ActiveConnections ==
    /\ [][\A w \in Sockets :
            (Listed(active_connections, w) /\ ~Listed(active_connections', w))
                => ~sockets[w].open]_vars
    /\ [](\A w \in Sockets :
            sockets[w].pc \in {"receive", "broadcast"} => Listed(active_connections, w))
    /\ [](\A w \in Sockets :
            sockets[w].pc \in {"closed", "failed"} => ~Listed(active_connections, w))

====
